---- MODULE Spec2Model ----
(***************************************************************************)
(* Secure Messaging System: X3DH key agreement (x3dh.rs), the Double       *)
(* Ratchet (crypto/double_ratchet.rs) and the primitives they rest on      *)
(* (primitives.rs).                                                        *)
(*                                                                         *)
(* Cryptographic values are symbolic terms, written as sequences of        *)
(* integers whose first element is a tag.  Two terms are equal exactly     *)
(* when they were built the same way: hash, HMAC, HKDF and signature are   *)
(* collision free, and a Diffie-Hellman output depends only on the secret  *)
(* scalar and on the point it is multiplied with.                          *)
(***************************************************************************)
EXTENDS Integers, Sequences, FiniteSets, Bags, TLC

\* ------------------------------------------------------------------ bounds
\* MAX_SKIP of double_ratchet.rs:12 is 1000; the model scales it down so
\* that a gap of MAX_SKIP and of MAX_SKIP + 1 messages is reachable.
MAX_SKIP == 2
\* Encrypt calls of both parties together: enough for two gaps in one chain.
MaxTotal == MAX_SKIP + 3
\* Encrypt calls of Bob, who answers Alice.
MaxReplies == 2
\* Encrypt calls of both parties together when the network also alters and
\* repeats messages, and the calls it alters or repeats.
MaxNetTotal == 2
MaxFaults == 1

\* ------------------------------------------------------------------ terms
TagPub == 1        \* X25519 public key of a secret scalar: <<TagPub, s>>
TagHashPt == 2     \* SHA-256 of an Ed25519 public key read as a point
TagDH == 3         \* scalar * scalar * basepoint
TagDHHash == 4     \* scalar * hash point
TagEd == 5         \* Ed25519 verifying key of an identity
TagHkdf == 6
TagHmac == 7
TagIv == 8
TagRandom == 10    \* a key drawn from the RNG

InfoRootChain == 1       \* b"root-chain"
InfoChainKey == 2        \* b"chain-key"
InfoX3DH == 3            \* b"X3DH-SharedSecret"
InfoMessageAuth == 4     \* b"message-auth"
SaltAuth == <<97>>       \* b"auth"

None == <<>>
IsSome(x) == x # None

Min(a, b) == IF a <= b THEN a ELSE b
Max(a, b) == IF a <= b THEN b ELSE a

\* PublicKey::from(&StaticSecret)
PublicKeyFrom(secret) == <<TagPub, secret>>

\* SigningKey::verifying_key().to_bytes()
verifying_key(identity) == <<TagEd, identity>>

\* primitives.rs: dh.  The scalar multiplication commutes only when the point
\* is the public key of a known scalar.
dh(secret, public) ==
    IF public[1] = TagPub
    THEN <<TagDH, Min(secret, public[2]), Max(secret, public[2])>>
    ELSE <<TagDHHash, secret, public[2]>>

\* primitives.rs: kdf_hkdf(input_key_material, salt, info)
kdf_hkdf(ikm, salt, info) == <<TagHkdf, info, Len(ikm)>> \o ikm \o salt

\* Hmac::<Sha256>::new_from_slice(key); update(byte); finalize()
hmac(key, byte) == <<TagHmac, byte>> \o key

\* primitives.rs: kdf_message_keys, returning (MessageKeys, new chain key)
kdf_message_keys(chain_key) ==
    LET new_chain_key == hmac(chain_key, 2)
        message_key_material == hmac(chain_key, 1)
    IN [keys |-> [encryption_key |-> message_key_material,
                  auth_key |-> kdf_hkdf(message_key_material, SaltAuth, InfoMessageAuth),
                  iv |-> <<TagIv>> \o message_key_material],
        chain |-> new_chain_key]

\* primitives.rs: encrypt (ChaCha20-Poly1305 seal).  flip = 1 marks a
\* ciphertext whose bytes were altered after sealing.
encrypt(key, nonce, plaintext, associated_data) ==
    [key |-> key, iv |-> nonce, pt |-> plaintext, ad |-> associated_data, flip |-> 0]

\* primitives.rs: decrypt (ChaCha20-Poly1305 open)
decrypt(key, nonce, ciphertext, associated_data) ==
    IF /\ ciphertext.flip = 0
       /\ ciphertext.key = key
       /\ ciphertext.iv = nonce
       /\ ciphertext.ad = associated_data
    THEN [ok |-> TRUE, err |-> "", val |-> ciphertext.pt]
    ELSE [ok |-> FALSE, err |-> "DecryptionFailed", val |-> <<>>]

\* bincode::serialize(&MessageHeader): length-prefixed dh_public, two u32
serialize(header) ==
    <<Len(header.dh_public)>> \o header.dh_public
        \o <<header.prev_chain_length, header.message_number>>

\* SigningKey::sign over header bytes followed by the ciphertext
sign(identity, header_bytes, ciphertext) ==
    [signer |-> identity, hb |-> header_bytes, ct |-> ciphertext, flip |-> 0]

\* a verification that covers the header and leaves out the ciphertext
verify_header_only(remote_identity, header_bytes, ciphertext, signature) ==
    /\ signature.flip = 0
    /\ remote_identity = verifying_key(signature.signer)
    /\ signature.hb = header_bytes

\* Signature::from_slice followed by VerifyingKey::verify
verify(remote_identity, header_bytes, ciphertext, signature) ==
    /\ signature.flip = 0
    /\ remote_identity = verifying_key(signature.signer)
    /\ signature.hb = header_bytes
    /\ signature.ct = ciphertext

\* ------------------------------------------------------- double_ratchet.rs
Alice == "alice"
Bob == "bob"
Party == {Alice, Bob}
Peer(p) == IF p = Alice THEN Bob ELSE Alice

\* Ed25519 identities (SigningKey) of the two parties
IdentityOf(p) == IF p = Alice THEN 1 ELSE 2

\* Bob's initial DH secret, handed to init_bob; every other secret is drawn
\* from the RNG, modelled by the counter rng (each draw is a new scalar).
BobDH == 1
SharedSecret == <<TagRandom, 0>>

Ok(s) == [ok |-> TRUE, err |-> "", st |-> s]
Err(e, s) == [ok |-> FALSE, err |-> e, st |-> s]

\* RatchetState::init_alice; fresh is the scalar the RNG returns
init_alice(shared_secret, remote_public_key, identity_key, remote_identity, fresh) ==
    LET dh_output == dh(fresh, remote_public_key)
    IN [dh_self |-> fresh,
        dh_remote |-> remote_public_key,
        root_key |-> kdf_hkdf(dh_output, shared_secret, InfoRootChain),
        chain_key_send |-> kdf_hkdf(dh_output, shared_secret, InfoChainKey),
        send_counter |-> 0,
        chain_key_recv |-> None,
        recv_counter |-> 0,
        prev_chain_length |-> 0,
        skipped_keys |-> {},
        identity_key |-> identity_key,
        remote_identity |-> remote_identity]

\* RatchetState::init_bob
init_bob(shared_secret, dh_keypair, identity_key) ==
    [dh_self |-> dh_keypair,
     dh_remote |-> None,
     root_key |-> shared_secret,
     chain_key_send |-> None,
     send_counter |-> 0,
     chain_key_recv |-> None,
     recv_counter |-> 0,
     prev_chain_length |-> 0,
     skipped_keys |-> {},
     identity_key |-> identity_key,
     remote_identity |-> None]

\* RatchetState::kdf_rk, returning (new root, chain key)
kdf_rk(root_key, dh_output) ==
    [root |-> kdf_hkdf(dh_output, root_key, InfoRootChain),
     chain |-> kdf_hkdf(dh_output, root_key, InfoChainKey)]

\* dh_ratchet deriving the sending chain from the root key it started with
dh_ratchet_stale_root(s, remote_public, fresh) ==
    LET r1 == kdf_rk(s.root_key, dh(s.dh_self, remote_public))
        r2 == kdf_rk(s.root_key, dh(fresh, remote_public))
    IN [s EXCEPT !.prev_chain_length = s.send_counter,
                 !.send_counter = 0,
                 !.recv_counter = 0,
                 !.dh_remote = remote_public,
                 !.chain_key_recv = r1.chain,
                 !.dh_self = fresh,
                 !.root_key = r2.root,
                 !.chain_key_send = r2.chain]

\* dh_ratchet keeping its own key pair
dh_ratchet_keep_self(s, remote_public, fresh) ==
    LET r1 == kdf_rk(s.root_key, dh(s.dh_self, remote_public))
        r2 == kdf_rk(r1.root, dh(s.dh_self, remote_public))
    IN [s EXCEPT !.prev_chain_length = s.send_counter,
                 !.send_counter = 0,
                 !.recv_counter = 0,
                 !.dh_remote = remote_public,
                 !.chain_key_recv = r1.chain,
                 !.root_key = r2.root,
                 !.chain_key_send = r2.chain]

\* dh_ratchet leaving the three counters as they were
dh_ratchet_keep_counters(s, remote_public, fresh) ==
    LET r1 == kdf_rk(s.root_key, dh(s.dh_self, remote_public))
        r2 == kdf_rk(r1.root, dh(fresh, remote_public))
    IN [s EXCEPT !.dh_remote = remote_public,
                 !.chain_key_recv = r1.chain,
                 !.dh_self = fresh,
                 !.root_key = r2.root,
                 !.chain_key_send = r2.chain]

\* RatchetState::dh_ratchet; fresh is the scalar the RNG returns
\* a ratchet step that derives the receiving chain only
dh_ratchet_recv_only(s, remote_public, fresh) ==
    LET r1 == kdf_rk(s.root_key, dh(s.dh_self, remote_public))
    IN [s EXCEPT !.prev_chain_length = s.send_counter,
                 !.send_counter = 0,
                 !.recv_counter = 0,
                 !.dh_remote = remote_public,
                 !.chain_key_recv = r1.chain,
                 !.dh_self = fresh,
                 !.root_key = r1.root,
                 !.chain_key_send = None]

dh_ratchet(s, remote_public, fresh) ==
    LET r1 == kdf_rk(s.root_key, dh(s.dh_self, remote_public))
        r2 == kdf_rk(r1.root, dh(fresh, remote_public))
    IN [s EXCEPT !.prev_chain_length = s.send_counter,
                 !.send_counter = 0,
                 !.recv_counter = 0,
                 !.dh_remote = remote_public,
                 !.chain_key_recv = r1.chain,
                 !.dh_self = fresh,
                 !.root_key = r2.root,
                 !.chain_key_send = r2.chain]

\* HashMap::insert / remove on skipped_keys, a map keyed by <<dh_public, n>>
\* set of entries [key |-> <<dh_public, n>>, val |-> MessageKeys], one per key
MapHas(m, k) == \E e \in m : e.key = k
MapGet(m, k) == (CHOOSE e \in m : e.key = k).val
MapInsert(m, k, v) == {e \in m : e.key # k} \cup {[key |-> k, val |-> v]}
\* a remove that empties the map
MapRemove_all(m, k) == {}
MapRemove(m, k) == {e \in m : e.key # k}

\* the loop advancing the chain without storing the keys it passes
RECURSIVE SkipLoop_no_insert(_, _, _)
SkipLoop_no_insert(s, current_chain, until) ==
    IF s.recv_counter < until
    THEN SkipLoop_no_insert([s EXCEPT !.recv_counter = @ + 1],
                            kdf_message_keys(current_chain).chain, until)
    ELSE [s EXCEPT !.chain_key_recv = current_chain]

\* the while loop of skip_message_keys (lines 162-168)
RECURSIVE SkipLoop(_, _, _)
SkipLoop(s, current_chain, until) ==
    IF s.recv_counter < until
    THEN LET k == kdf_message_keys(current_chain)
         IN SkipLoop([s EXCEPT !.skipped_keys =
                                  MapInsert(@, <<s.dh_remote, s.recv_counter>>, k.keys),
                               !.recv_counter = @ + 1],
                     k.chain, until)
    ELSE [s EXCEPT !.chain_key_recv = current_chain]

\* RatchetState::skip_message_keys
skip_message_keys(s, until) ==
    IF s.recv_counter + MAX_SKIP < until
    THEN Err("DecryptionFailed", s)
    ELSE IF IsSome(s.chain_key_recv) /\ IsSome(s.dh_remote)
         THEN Ok(SkipLoop(s, s.chain_key_recv, until))
         ELSE Ok(s)

\* RatchetState::encrypt: [ok, err, st, msg]
NoCiphertext == [key |-> <<>>, iv |-> <<>>, pt |-> <<>>, ad |-> <<>>, flip |-> 0]
NoMessage ==
    [header |-> [dh_public |-> <<>>, prev_chain_length |-> 0, message_number |-> 0],
     ciphertext |-> NoCiphertext,
     signature |-> [signer |-> 0, hb |-> <<>>, ct |-> NoCiphertext, flip |-> 0]]

\* encrypt advancing the counter but not the sending chain
RatchetState_encrypt_same_chain(s, plaintext, associated_data) ==
    IF ~IsSome(s.chain_key_send)
    THEN [ok |-> FALSE, err |-> "EncryptionFailed", st |-> s, msg |-> NoMessage]
    ELSE LET k == kdf_message_keys(s.chain_key_send)
             header == [dh_public |-> PublicKeyFrom(s.dh_self),
                        prev_chain_length |-> s.prev_chain_length,
                        message_number |-> s.send_counter]
             header_bytes == serialize(header)
             ciphertext == encrypt(k.keys.encryption_key, k.keys.iv, plaintext,
                                   header_bytes \o associated_data)
         IN [ok |-> TRUE, err |-> "",
             st |-> [s EXCEPT !.send_counter = @ + 1],
             msg |-> [header |-> header, ciphertext |-> ciphertext,
                      signature |-> sign(s.identity_key, header_bytes, ciphertext)]]

\* encrypt that leaves send_counter as it was
RatchetState_encrypt_keep_counter(s, plaintext, associated_data) ==
    IF ~IsSome(s.chain_key_send)
    THEN [ok |-> FALSE, err |-> "EncryptionFailed", st |-> s, msg |-> NoMessage]
    ELSE LET k == kdf_message_keys(s.chain_key_send)
             header == [dh_public |-> PublicKeyFrom(s.dh_self),
                        prev_chain_length |-> s.prev_chain_length,
                        message_number |-> s.send_counter]
             header_bytes == serialize(header)
             ciphertext == encrypt(k.keys.encryption_key, k.keys.iv, plaintext,
                                   header_bytes \o associated_data)
         IN [ok |-> TRUE, err |-> "",
             st |-> [s EXCEPT !.chain_key_send = k.chain],
             msg |-> [header |-> header, ciphertext |-> ciphertext,
                      signature |-> sign(s.identity_key, header_bytes, ciphertext)]]

\* encrypt that also records the length of the chain it sends on
RatchetState_encrypt_set_prev(s, plaintext, associated_data) ==
    IF ~IsSome(s.chain_key_send)
    THEN [ok |-> FALSE, err |-> "EncryptionFailed", st |-> s, msg |-> NoMessage]
    ELSE LET k == kdf_message_keys(s.chain_key_send)
             header == [dh_public |-> PublicKeyFrom(s.dh_self),
                        prev_chain_length |-> s.prev_chain_length,
                        message_number |-> s.send_counter]
             header_bytes == serialize(header)
             ciphertext == encrypt(k.keys.encryption_key, k.keys.iv, plaintext,
                                   header_bytes \o associated_data)
         IN [ok |-> TRUE, err |-> "",
             st |-> [s EXCEPT !.chain_key_send = k.chain, !.send_counter = @ + 1,
                              !.prev_chain_length = s.send_counter + 1],
             msg |-> [header |-> header, ciphertext |-> ciphertext,
                      signature |-> sign(s.identity_key, header_bytes, ciphertext)]]

RatchetState_encrypt(s, plaintext, associated_data) ==
    IF ~IsSome(s.chain_key_send)
    THEN [ok |-> FALSE, err |-> "EncryptionFailed", st |-> s, msg |-> NoMessage]
    ELSE LET k == kdf_message_keys(s.chain_key_send)
             header == [dh_public |-> PublicKeyFrom(s.dh_self),
                        prev_chain_length |-> s.prev_chain_length,
                        message_number |-> s.send_counter]
             header_bytes == serialize(header)
             ciphertext == encrypt(k.keys.encryption_key, k.keys.iv, plaintext,
                                   header_bytes \o associated_data)
         IN [ok |-> TRUE, err |-> "",
             st |-> [s EXCEPT !.chain_key_send = k.chain, !.send_counter = @ + 1],
             msg |-> [header |-> header, ciphertext |-> ciphertext,
                      signature |-> sign(s.identity_key, header_bytes, ciphertext)]]

\* <[u8; 32]>::try_from(message.header.dh_public): a key is a two-element term
KeySizeOk(bytes) == Len(bytes) = 2

\* the skipped-key path leaving the key it used in the map
DecryptSkipped_keep_key(s, message, associated_data, key) ==
    LET msg_keys == MapGet(s.skipped_keys, key)
        r == decrypt(msg_keys.encryption_key, msg_keys.iv, message.ciphertext,
                     serialize(message.header) \o associated_data)
    IN [ok |-> r.ok, err |-> r.err, val |-> r.val, at |-> "open_skipped", st |-> s]

\* the skipped-key path counting the message as one more of the chain
DecryptSkipped_count(s, message, associated_data, key) ==
    LET msg_keys == MapGet(s.skipped_keys, key)
        r == decrypt(msg_keys.encryption_key, msg_keys.iv, message.ciphertext,
                     serialize(message.header) \o associated_data)
    IN [ok |-> r.ok, err |-> r.err, val |-> r.val, at |-> "open_skipped",
        st |-> [s EXCEPT !.skipped_keys = MapRemove(@, key), !.recv_counter = @ + 1]]

\* lines 246-254 of decrypt: the key is removed before the AEAD open
DecryptSkipped(s, message, associated_data, key) ==
    LET msg_keys == MapGet(s.skipped_keys, key)
        r == decrypt(msg_keys.encryption_key, msg_keys.iv, message.ciphertext,
                     serialize(message.header) \o associated_data)
    IN [ok |-> r.ok, err |-> r.err, val |-> r.val, at |-> "open_skipped",
        st |-> [s EXCEPT !.skipped_keys = MapRemove(@, key)]]

\* the chain path leaving chain_key_recv at the key it has just used
DecryptChain_keep_chain(s, message, associated_data) ==
    LET sk == skip_message_keys(s, message.header.message_number)
    IN IF ~sk.ok
       THEN [ok |-> FALSE, err |-> sk.err, val |-> <<>>, at |-> "skip", st |-> sk.st]
       ELSE IF ~IsSome(sk.st.chain_key_recv)
       THEN [ok |-> FALSE, err |-> "DecryptionFailed", val |-> <<>>, at |-> "no_chain",
             st |-> sk.st]
       ELSE LET k == kdf_message_keys(sk.st.chain_key_recv)
                r == decrypt(k.keys.encryption_key, k.keys.iv, message.ciphertext,
                             serialize(message.header) \o associated_data)
            IN IF ~r.ok
               THEN [ok |-> FALSE, err |-> r.err, val |-> <<>>, at |-> "open_chain",
                     st |-> sk.st]
               ELSE [ok |-> TRUE, err |-> "", val |-> r.val, at |-> "open_chain",
                     st |-> [sk.st EXCEPT !.recv_counter = @ + 1]]

\* lines 262-283 of decrypt, on the state left by the ratchet check
DecryptChain(s, message, associated_data) ==
    LET sk == skip_message_keys(s, message.header.message_number)
    IN IF ~sk.ok
       THEN [ok |-> FALSE, err |-> sk.err, val |-> <<>>, at |-> "skip", st |-> sk.st]
       ELSE IF ~IsSome(sk.st.chain_key_recv)
       THEN [ok |-> FALSE, err |-> "DecryptionFailed", val |-> <<>>, at |-> "no_chain",
             st |-> sk.st]
       ELSE LET k == kdf_message_keys(sk.st.chain_key_recv)
                s2 == [sk.st EXCEPT !.chain_key_recv = k.chain]
                r == decrypt(k.keys.encryption_key, k.keys.iv, message.ciphertext,
                             serialize(message.header) \o associated_data)
            IN IF ~r.ok
               THEN [ok |-> FALSE, err |-> r.err, val |-> <<>>, at |-> "open_chain",
                     st |-> s2]
               ELSE [ok |-> TRUE, err |-> "", val |-> r.val, at |-> "open_chain",
                     st |-> [s2 EXCEPT !.recv_counter = @ + 1]]

\* the DH ratchet check without keeping the keys of the chain it leaves
RatchetCheck_no_skip(s, message, fresh) ==
    IF message.header.dh_public # s.dh_remote
    THEN Ok(dh_ratchet(s, message.header.dh_public, fresh))
    ELSE Ok(s)

\* lines 256-260 of decrypt: the DH ratchet check
RatchetCheck(s, message, fresh) ==
    IF message.header.dh_public # s.dh_remote
    THEN LET sk == skip_message_keys(s, message.header.prev_chain_length)
         IN IF ~sk.ok THEN sk
            ELSE Ok(dh_ratchet(sk.st, message.header.dh_public, fresh))
    ELSE Ok(s)

\* lines 226-239 of decrypt: the signature is checked only when the remote
\* identity is known
SignatureCheckPasses(s, message) ==
    IsSome(s.remote_identity) =>
        verify(s.remote_identity, serialize(message.header), message.ciphertext,
               message.signature)

\* RatchetState::decrypt: [ok, err, val, st] and the step the call ended at; fresh is the scalar the RNG
\* returns if a DH ratchet step is made
RatchetState_decrypt(s, message, associated_data, fresh) ==
    LET remote_public == message.header.dh_public
        key == <<remote_public, message.header.message_number>>
    IN IF ~SignatureCheckPasses(s, message)
       THEN [ok |-> FALSE, err |-> "InvalidSignature", val |-> <<>>, at |-> "signature",
             st |-> s]
       ELSE IF ~KeySizeOk(remote_public)
       THEN [ok |-> FALSE, err |-> "DecryptionFailed", val |-> <<>>, at |-> "key_size",
             st |-> s]
       ELSE IF MapHas(s.skipped_keys, key)
       THEN DecryptSkipped(s, message, associated_data, key)
       ELSE LET rc == RatchetCheck(s, message, fresh)
            IN IF ~rc.ok
               THEN [ok |-> FALSE, err |-> rc.err, val |-> <<>>, at |-> "skip_previous",
                     st |-> rc.st]
               ELSE DecryptChain(rc.st, message, associated_data)

\* whether the call draws from the RNG (a DH ratchet step is reached)
Ratchets(s, message) ==
    /\ SignatureCheckPasses(s, message)
    /\ KeySizeOk(message.header.dh_public)
    /\ ~MapHas(s.skipped_keys,
               <<message.header.dh_public, message.header.message_number>>)
    /\ message.header.dh_public # s.dh_remote
    /\ skip_message_keys(s, message.header.prev_chain_length).ok

\* RatchetState::set_remote_identity
set_remote_identity(s, remote_identity) ==
    [s EXCEPT !.remote_identity = remote_identity]

\* ------------------------------------------------------------------ x3dh.rs
\* StaticSecret::from(identity_key.to_bytes()): the Ed25519 seed of identity
\* i read as an X25519 scalar; the scalars the RNG returns lie above these
MaxIdentities == 2
Identities == 1..MaxIdentities
StaticSecretFrom(identity) == identity

\* ed25519_to_x25519_public: SHA-256 of the verifying key, read as a point
ed25519_to_x25519_public(ed_key) == <<TagHashPt, ed_key[2]>>

\* identity_key.sign(signed_prekey_public.as_bytes())
sign_prekey(identity, bytes) == [signer |-> identity, msg |-> bytes, flip |-> 0]

\* VerifyingKey::verify(&bundle.signed_prekey, &signature)
verify_prekey(identity_key, bytes, signature) ==
    /\ signature.flip = 0
    /\ identity_key = verifying_key(signature.signer)
    /\ signature.msg = bytes

NoResult ==
    [ok |-> FALSE, err |-> "none", shared_secret |-> <<>>, associated_data |-> <<>>,
     ephemeral_public |-> <<>>]
X3DHError(e) == [NoResult EXCEPT !.err = e]

\* X3DHInitiator::new; fresh is the scalar the RNG returns
X3DHInitiator_new(identity_key, fresh) ==
    [identity_key |-> identity_key, ephemeral_key |-> fresh]

\* X3DHReceiver::new; fresh is the scalar the RNG returns
X3DHReceiver_new(identity_key, fresh) ==
    [identity_key |-> identity_key,
     signed_prekey |-> fresh,
     signed_prekey_public |-> PublicKeyFrom(fresh),
     prekey_signature |-> sign_prekey(identity_key, PublicKeyFrom(fresh)),
     one_time_prekey |-> None]

\* X3DHReceiver::add_one_time_prekey; a secret is kept as <<scalar>>
add_one_time_prekey(self, fresh) == [self EXCEPT !.one_time_prekey = <<fresh>>]

\* X3DHReceiver::generate_bundle
generate_bundle(self) ==
    [identity_key |-> verifying_key(self.identity_key),
     signed_prekey |-> self.signed_prekey_public,
     prekey_signature |-> self.prekey_signature,
     one_time_prekey |-> IF IsSome(self.one_time_prekey)
                         THEN PublicKeyFrom(self.one_time_prekey[1])
                         ELSE None]

\* initiate without the check of the prekey signature
initiate_unverified(self, bundle) ==
    IF ~KeySizeOk(bundle.identity_key) THEN X3DHError("InvalidSignature")
    ELSE IF ~KeySizeOk(bundle.signed_prekey) THEN X3DHError("InvalidKeySize")
    ELSE IF IsSome(bundle.one_time_prekey) /\ ~KeySizeOk(bundle.one_time_prekey)
    THEN X3DHError("panic")
    ELSE LET identity_private == StaticSecretFrom(self.identity_key)
             remote_identity_x25519 == ed25519_to_x25519_public(bundle.identity_key)
             dh1 == dh(identity_private, bundle.signed_prekey)
             dh2 == dh(self.ephemeral_key, remote_identity_x25519)
             dh3 == dh(self.ephemeral_key, bundle.signed_prekey)
             dh_concat == IF IsSome(bundle.one_time_prekey)
                          THEN dh1 \o dh2 \o dh3
                                   \o dh(self.ephemeral_key, bundle.one_time_prekey)
                          ELSE dh1 \o dh2 \o dh3
         IN [ok |-> TRUE, err |-> "",
             shared_secret |-> kdf_hkdf(dh_concat, <<>>, InfoX3DH),
             associated_data |-> verifying_key(self.identity_key) \o bundle.identity_key,
             ephemeral_public |-> PublicKeyFrom(self.ephemeral_key)]

\* X3DHInitiator::initiate
initiate(self, bundle) ==
    IF ~KeySizeOk(bundle.identity_key) THEN X3DHError("InvalidSignature")
    ELSE IF ~verify_prekey(bundle.identity_key, bundle.signed_prekey,
                           bundle.prekey_signature)
    THEN X3DHError("InvalidSignature")
    ELSE IF ~KeySizeOk(bundle.signed_prekey) THEN X3DHError("InvalidKeySize")
    ELSE IF IsSome(bundle.one_time_prekey) /\ ~KeySizeOk(bundle.one_time_prekey)
    THEN X3DHError("panic")
    ELSE LET identity_private == StaticSecretFrom(self.identity_key)
             remote_identity_x25519 == ed25519_to_x25519_public(bundle.identity_key)
             dh1 == dh(identity_private, bundle.signed_prekey)
             dh2 == dh(self.ephemeral_key, remote_identity_x25519)
             dh3 == dh(self.ephemeral_key, bundle.signed_prekey)
             dh_concat == IF IsSome(bundle.one_time_prekey)
                          THEN dh1 \o dh2 \o dh3
                                   \o dh(self.ephemeral_key, bundle.one_time_prekey)
                          ELSE dh1 \o dh2 \o dh3
         IN [ok |-> TRUE, err |-> "",
             shared_secret |-> kdf_hkdf(dh_concat, <<>>, InfoX3DH),
             associated_data |-> verifying_key(self.identity_key) \o bundle.identity_key,
             ephemeral_public |-> PublicKeyFrom(self.ephemeral_key)]

\* receive that leaves the one-time prekey in place
receive_keep_prekey(self, initiator_identity, ephemeral_public) ==
    LET identity_private == StaticSecretFrom(self.identity_key)
        remote_identity_x25519 == ed25519_to_x25519_public(initiator_identity)
        dh1 == dh(self.signed_prekey, remote_identity_x25519)
        dh2 == dh(identity_private, ephemeral_public)
        dh3 == dh(self.signed_prekey, ephemeral_public)
        dh_concat == IF IsSome(self.one_time_prekey)
                     THEN dh1 \o dh2 \o dh3 \o dh(self.one_time_prekey[1], ephemeral_public)
                     ELSE dh1 \o dh2 \o dh3
    IN [res |-> [ok |-> TRUE, err |-> "",
                 shared_secret |-> kdf_hkdf(dh_concat, <<>>, InfoX3DH),
                 associated_data |-> initiator_identity
                                         \o verifying_key(self.identity_key),
                 ephemeral_public |-> ephemeral_public],
        self |-> self]

\* X3DHReceiver::receive: the result and the receiver it leaves
receive(self, initiator_identity, ephemeral_public) ==
    LET identity_private == StaticSecretFrom(self.identity_key)
        remote_identity_x25519 == ed25519_to_x25519_public(initiator_identity)
        dh1 == dh(self.signed_prekey, remote_identity_x25519)
        dh2 == dh(identity_private, ephemeral_public)
        dh3 == dh(self.signed_prekey, ephemeral_public)
        dh_concat == IF IsSome(self.one_time_prekey)
                     THEN dh1 \o dh2 \o dh3 \o dh(self.one_time_prekey[1], ephemeral_public)
                     ELSE dh1 \o dh2 \o dh3
    IN [res |-> [ok |-> TRUE, err |-> "",
                 shared_secret |-> kdf_hkdf(dh_concat, <<>>, InfoX3DH),
                 associated_data |-> initiator_identity
                                         \o verifying_key(self.identity_key),
                 ephemeral_public |-> ephemeral_public],
        self |-> [self EXCEPT !.one_time_prekey = None]]

\* ------------------------------------------------------------ the sessions
VARIABLES
    st,           \* the RatchetState of each party
    rng,          \* the next scalar the RNG returns
    sent,         \* per party, the messages it encrypted, with plaintext and AD
    delivered,    \* per party, the indexes of the peer's messages handed to decrypt
    fifo,         \* per party, whether those arrived in send order
    old_remotes,  \* per party, the peer keys it has ratcheted away from
    faults,       \* adversarial decrypt calls made so far
    failed,       \* per party, whether one of its decrypt calls returned an error
    opened,       \* per party, the messages a decrypt call returned Ok for, each
                  \* named by the index of the genuine message and how it was altered
    last,         \* the last call: its arguments, its result and the state before
    receiver,     \* Bob's X3DHReceiver
    initiator,    \* Alice's X3DHInitiator
    bundle,       \* the PreKeyBundle last published, None before
    results,      \* the last X3DHResult of each side and the inputs that gave it
    xrng,         \* scalars drawn by the X3DH side
    one_time_prekeys, \* the server's table one_time_prekeys, a set of rows
    sessions,     \* the server's table sessions, a set of rows
    reqs,         \* the requests the server is handling: handler, position, locals
    served,       \* requests accepted so far
    responses,    \* what the requests that ended have returned, a bag
    aead,         \* one use of the AEAD primitives: inputs, ciphertext, result
    messages,     \* the server's table messages, a set of rows
    users,        \* the server's table users, a set of rows
    clock,        \* what Utc::now() returns next
    skip_call     \* one call of skip_message_keys: recv_counter, until, outcome

drvars == <<st, rng, sent, delivered, fifo, old_remotes, faults, failed, opened, last>>
xvars == <<receiver, initiator, bundle, results, xrng>>
svars == <<one_time_prekeys, sessions, reqs, served, responses>>
pvars == <<aead, skip_call>>
tvars == <<messages, users, clock>>
vars == <<st, rng, sent, delivered, fifo, old_remotes, faults, failed, opened, last,
          receiver, initiator, bundle, results, xrng,
          one_time_prekeys, sessions, reqs, served, responses, aead,
          messages, users, clock, skip_call>>

\* what a party passes to encrypt: a plaintext and its associated data
Payloads == {[pt |-> <<1>>, ad |-> <<>>], [pt |-> <<2>>, ad |-> <<9>>]}
AssociatedData == {<<>>, <<9>>}

NoCall(s) ==
    [op |-> "init", who |-> Bob, ok |-> TRUE, err |-> "", val |-> <<>>,
     at |-> "", failed_before |-> FALSE,
     pre |-> s, post |-> s, msg |-> NoMessage, ad |-> <<>>, pt |-> <<>>,
     sent_ad |-> <<>>, idx |-> 0, kind |-> "none", first |-> FALSE, sigok |-> TRUE,
     seen |-> FALSE]

\* test_double_ratchet, lines 298-318: both states from one shared secret,
\* Bob's key pair matching the public key given to Alice
InitSessions ==
    /\ st = [p \in Party |->
               IF p = Alice
               THEN init_alice(SharedSecret, PublicKeyFrom(BobDH), IdentityOf(Alice),
                               verifying_key(IdentityOf(Bob)), BobDH + 1)
               ELSE init_bob(SharedSecret, BobDH, IdentityOf(Bob))]
    /\ rng = BobDH + 2
    /\ sent = [p \in Party |-> <<>>]
    /\ delivered = [p \in Party |-> {}]
    /\ fifo = [p \in Party |-> TRUE]
    /\ old_remotes = [p \in Party |-> {}]
    /\ faults = 0
    /\ failed = [p \in Party |-> FALSE]
    /\ opened = [p \in Party |-> {}]
    /\ last = NoCall(init_bob(SharedSecret, BobDH, IdentityOf(Bob)))

\* test_x3dh_key_agreement, lines 231-241: a receiver and an initiator, each
\* with an identity key and a first scalar from the RNG
NoBundle ==
    [identity_key |-> <<>>, signed_prekey |-> <<>>,
     prekey_signature |-> sign_prekey(0, <<>>), one_time_prekey |-> None]
NoResults(r) ==
    [alice |-> NoResult, bob |-> NoResult, used |-> NoBundle, receiver_before |-> r,
     claimed |-> <<>>, receives |-> 0, consumed |-> {}]

InitX3DH(alice_identity, bob_identity) ==
    /\ receiver = X3DHReceiver_new(bob_identity, MaxIdentities + 1)
    /\ initiator = X3DHInitiator_new(alice_identity, MaxIdentities + 2)
    /\ bundle = None
    /\ results = NoResults(receiver)
    /\ xrng = MaxIdentities + 3

\* ------------------------------------------- db/mod.rs, api/handlers.rs
MaxRequests == 2      \* requests the server handles at the same time
MaxServed == 3        \* requests it accepts in a run
MaxPrekeys == 2       \* rows of one_time_prekeys
MaxMessages == 2      \* rows of messages
Requests == 1..MaxRequests
\* users.id of the registered users, and the sender id send_message passes
UserIds == {"u1", "u2"}
SenderId == "sender_id"
\* the usernames register is called with, each 1 to 32 characters long
Usernames == {"alice", "bob"}
NoRow == [id |-> 0, user_id |-> "", public_key |-> <<>>, used |-> FALSE]
Idle ==
    [op |-> "idle", pc |-> "", user_a |-> "", user_b |-> "", row |-> NoRow,
     rows |-> <<>>, next |-> 0, created_at |-> 0, before |-> {}]

\* main: an empty schema after init_schema, no request in flight
InitServer ==
    /\ one_time_prekeys = {}
    /\ sessions = {}
    /\ reqs = [r \in Requests |-> Idle]
    /\ served = 0
    /\ responses = EmptyBag
    /\ messages = {}
    /\ users = {}
    /\ clock = 1


\* ------------------------------------------------- primitives.rs on its own
MaxBytes == 2         \* values a key, a nonce, a plaintext or the AAD takes
Bytes == {<<b>> : b \in 1..MaxBytes}
NoOpen == [ok |-> FALSE, err |-> "none", val |-> <<>>]
NoAead ==
    [key |-> <<>>, nonce |-> <<>>, plaintext |-> <<>>, associated_data |-> <<>>,
     ciphertext |-> NoCiphertext, sealed |-> FALSE, open_key |-> <<>>,
     open_nonce |-> <<>>, open_aad |-> <<>>, modified |-> FALSE, out |-> NoOpen]
\* the arguments of an encrypt call, nothing computed yet
AeadInputs ==
    {[NoAead EXCEPT !.key = k, !.nonce = n, !.plaintext = pt, !.associated_data = ad] :
        k \in Bytes, n \in Bytes, pt \in Bytes, ad \in Bytes}

\* recv_counter and until are u32; the model gives them CounterBits bits
CounterBits == 4
CounterValues == 0..(2^CounterBits - 1)
\* cargo's two profiles: overflow checks on (dev) or off (release)
Builds == {"dev", "release"}
NoSkipCall == [recv_counter |-> 0, until |-> 0, out |-> "none"]
SkipInputs ==
    {[NoSkipCall EXCEPT !.recv_counter = c, !.until = u] :
        c \in CounterValues, u \in CounterValues}

Init ==
    /\ InitSessions /\ InitX3DH(IdentityOf(Alice), IdentityOf(Bob)) /\ InitServer
    /\ aead = NoAead /\ skip_call = NoSkipCall

\* bob.set_remote_identity(alice_public_identity)
SetRemoteIdentity ==
    /\ ~IsSome(st[Bob].remote_identity)
    /\ st' = [st EXCEPT ![Bob] = set_remote_identity(@, verifying_key(IdentityOf(Alice)))]
    /\ last' = [NoCall(st[Bob]) EXCEPT !.op = "set_remote_identity",
                                       !.post = st'[Bob]]
    /\ UNCHANGED <<rng, sent, delivered, fifo, old_remotes, faults, failed, opened,
                   xvars, svars, pvars, tvars>>

\* p.encrypt(plaintext, associated_data)
Encrypt(p, plaintext, associated_data, total) ==
    /\ p = Bob => Len(sent[Bob]) < MaxReplies
    /\ Len(sent[Alice]) + Len(sent[Bob]) < total
    /\ LET r == RatchetState_encrypt(st[p], plaintext, associated_data)
       IN /\ st' = [st EXCEPT ![p] = r.st]
          /\ sent' = IF r.ok
                     THEN [sent EXCEPT ![p] = Append(@, [msg |-> r.msg, pt |-> plaintext,
                                                         ad |-> associated_data])]
                     ELSE sent
          /\ last' = [NoCall(st[p]) EXCEPT !.op = "encrypt", !.who = p, !.ok = r.ok,
                                           !.err = r.err, !.post = r.st, !.msg = r.msg,
                                           !.ad = associated_data, !.pt = plaintext,
                                           !.sent_ad = associated_data,
                                           !.idx = Len(sent[p]) + 1]
    /\ UNCHANGED <<rng, delivered, fifo, old_remotes, faults, failed, opened, xvars,
                   svars, pvars, tvars>>

\* one name for each distinct message the network can hand over: the genuine
\* message i, however often and with whatever associated data it is delivered,
\* or the copy of it altered in one field
MessageId(i, kind) ==
    <<i, IF kind \in {"genuine", "wrong_ad", "replay"} THEN "genuine" ELSE kind>>

\* p.decrypt(message, associated_data) on the message the network hands over;
\* i is the index of the genuine message it is (or was made from)
Decrypt(p, i, message, associated_data, kind) ==
    LET r == RatchetState_decrypt(st[p], message, associated_data, rng)
        ratchets == Ratchets(st[p], message)
    IN /\ st' = [st EXCEPT ![p] = r.st]
       /\ failed' = [failed EXCEPT ![p] = @ \/ ~r.ok]
       /\ opened' = IF r.ok
                    THEN [opened EXCEPT ![p] = @ \cup {MessageId(i, kind)}]
                    ELSE opened
       /\ UNCHANGED <<xvars, svars, pvars, tvars>>
       /\ rng' = IF ratchets THEN rng + 1 ELSE rng
       /\ old_remotes' = IF ratchets /\ IsSome(st[p].dh_remote)
                         THEN [old_remotes EXCEPT ![p] = @ \cup {st[p].dh_remote}]
                         ELSE old_remotes
       /\ last' = [op |-> "decrypt", who |-> p, ok |-> r.ok, err |-> r.err, val |-> r.val,
                   at |-> r.at, failed_before |-> failed[p],
                   pre |-> st[p], post |-> r.st, msg |-> message, ad |-> associated_data,
                   pt |-> sent[Peer(p)][i].pt, sent_ad |-> sent[Peer(p)][i].ad,
                   idx |-> i, kind |-> kind, first |-> i \notin delivered[p],
                   sigok |-> verify(verifying_key(IdentityOf(Peer(p))),
                                    serialize(message.header), message.ciphertext,
                                    message.signature),
                   seen |-> MessageId(i, kind) \in opened[p]]

\* the network delivers a genuine message for the first time, with the
\* sender's associated data
Deliver(p, i) ==
    /\ i \in 1..Len(sent[Peer(p)])
    /\ i \notin delivered[p]
    /\ Decrypt(p, i, sent[Peer(p)][i].msg, sent[Peer(p)][i].ad, "genuine")
    /\ delivered' = [delivered EXCEPT ![p] = @ \cup {i}]
    /\ fifo' = [fifo EXCEPT ![p] = @ /\ (\A j \in 1..(i - 1) : j \in delivered[p])]
    /\ UNCHANGED <<sent, faults>>

\* the genuine message with associated data other than the sender's
DeliverWrongAD(p, i, associated_data) ==
    /\ faults < MaxFaults
    /\ i \in 1..Len(sent[Peer(p)])
    /\ i \notin delivered[p]
    /\ associated_data # sent[Peer(p)][i].ad
    /\ Decrypt(p, i, sent[Peer(p)][i].msg, associated_data, "wrong_ad")
    /\ delivered' = [delivered EXCEPT ![p] = @ \cup {i}]
    /\ fifo' = [fifo EXCEPT ![p] = @ /\ (\A j \in 1..(i - 1) : j \in delivered[p])]
    /\ faults' = faults + 1
    /\ UNCHANGED sent

\* a message that was delivered before is delivered again
Replay(p, i) ==
    /\ faults < MaxFaults
    /\ i \in delivered[p]
    /\ Decrypt(p, i, sent[Peer(p)][i].msg, sent[Peer(p)][i].ad, "replay")
    /\ faults' = faults + 1
    /\ UNCHANGED <<sent, delivered, fifo>>

\* what the network can make of a genuine message
TamperKinds == {"message_number", "prev_chain_length", "dh_public", "ciphertext",
                "signature"}
AttackerKey == PublicKeyFrom(0)
Tampered(m, kind) ==
    CASE kind = "message_number" -> [m EXCEPT !.header.message_number = @ + 1]
      [] kind = "prev_chain_length" -> [m EXCEPT !.header.prev_chain_length = @ + 1]
      [] kind = "dh_public" -> [m EXCEPT !.header.dh_public = AttackerKey]
      [] kind = "ciphertext" -> [m EXCEPT !.ciphertext.flip = 1]
      [] kind = "signature" -> [m EXCEPT !.signature.flip = 1]

\* an altered copy of a genuine message is delivered
Tamper(p, i, kind) ==
    /\ faults < MaxFaults
    /\ i \in 1..Len(sent[Peer(p)])
    /\ Decrypt(p, i, Tampered(sent[Peer(p)][i].msg, kind), sent[Peer(p)][i].ad, kind)
    /\ faults' = faults + 1
    /\ UNCHANGED <<sent, delivered, fifo>>

NextHonest ==
    \/ SetRemoteIdentity
    \/ \E p \in Party, x \in Payloads : Encrypt(p, x.pt, x.ad, MaxTotal)
    \/ \E p \in Party, i \in 1..MaxTotal : Deliver(p, i)

\* reordering and loss only
SpecHonest == Init /\ [][NextHonest]_vars

NextNetwork ==
    \/ SetRemoteIdentity
    \/ \E p \in Party, x \in Payloads : Encrypt(p, x.pt, x.ad, MaxNetTotal)
    \/ \E p \in Party, i \in 1..MaxNetTotal : Deliver(p, i)
    \/ \E p \in Party, i \in 1..MaxNetTotal, ad \in AssociatedData :
           DeliverWrongAD(p, i, ad)
    \/ \E p \in Party, i \in 1..MaxNetTotal : Replay(p, i)
    \/ \E p \in Party, i \in 1..MaxNetTotal, kind \in TamperKinds : Tamper(p, i, kind)

\* a network that also alters and repeats messages
Spec == Init /\ [][NextNetwork]_vars

NextReplay ==
    \/ SetRemoteIdentity
    \/ \E p \in Party, x \in Payloads : Encrypt(p, x.pt, x.ad, MaxNetTotal + 1)
    \/ \E p \in Party, i \in 1..(MaxNetTotal + 1) : Deliver(p, i)
    \/ \E p \in Party, i \in 1..(MaxNetTotal + 1) : Replay(p, i)

\* a network that repeats messages but does not alter them, over a
\* conversation long enough for a party to receive on two chains
SpecReplay == Init /\ [][NextReplay]_vars

\* ------------------------------------------------------- the key agreement
MaxScalars == 3

\* bob_receiver.add_one_time_prekey()
AddOneTimePrekey ==
    /\ xrng < MaxIdentities + 3 + MaxScalars
    /\ receiver' = add_one_time_prekey(receiver, xrng)
    /\ xrng' = xrng + 1
    /\ UNCHANGED <<initiator, bundle, results, drvars, svars, pvars, tvars>>

\* bob_receiver.generate_bundle()
GenerateBundle ==
    /\ bundle' = generate_bundle(receiver)
    /\ bundle' # bundle
    /\ UNCHANGED <<receiver, initiator, results, xrng, drvars, svars, pvars, tvars>>

\* what a server or a faulty receiver can make of the receiver's bundle: a
\* field replaced by another well-formed value, a key cut short, or a short
\* signed prekey signed by the receiver itself
BundleFaults == {"signature", "signed_prekey", "identity_key", "short_identity_key",
                 "short_signed_prekey", "signed_short_prekey", "short_one_time_prekey"}
ShortKey == <<TagPub>>
Altered(b, self, kind) ==
    CASE kind = "signature" -> [b EXCEPT !.prekey_signature.flip = 1]
      [] kind = "signed_prekey" -> [b EXCEPT !.signed_prekey = PublicKeyFrom(0)]
      [] kind = "identity_key" -> [b EXCEPT !.identity_key = verifying_key(0)]
      [] kind = "short_identity_key" -> [b EXCEPT !.identity_key = <<TagEd>>]
      [] kind = "short_signed_prekey" -> [b EXCEPT !.signed_prekey = ShortKey]
      [] kind = "signed_short_prekey" ->
             [b EXCEPT !.signed_prekey = ShortKey,
                       !.prekey_signature = sign_prekey(self.identity_key, ShortKey)]
      [] kind = "short_one_time_prekey" -> [b EXCEPT !.one_time_prekey = ShortKey]

\* X3DHInitiator::new(alice_identity)
NewInitiator ==
    /\ xrng < MaxIdentities + 3 + MaxScalars
    /\ initiator' = X3DHInitiator_new(initiator.identity_key, xrng)
    /\ xrng' = xrng + 1
    /\ UNCHANGED <<receiver, bundle, results, drvars, svars, pvars, tvars>>

\* alice_initiator.initiate(&bob_bundle)
Initiate ==
    /\ IsSome(bundle)
    /\ results' = [results EXCEPT !.alice = initiate(initiator, bundle),
                                  !.used = bundle,
                                  !.bob = NoResult]
    /\ results' # results
    /\ UNCHANGED <<receiver, initiator, bundle, xrng, drvars, svars, pvars, tvars>>

\* alice_initiator.initiate on an altered copy of the published bundle
InitiateAltered(kind) ==
    /\ IsSome(bundle)
    /\ results' = [results EXCEPT !.alice = initiate(initiator,
                                                     Altered(bundle, receiver, kind)),
                                  !.used = Altered(bundle, receiver, kind),
                                  !.bob = NoResult]
    /\ results' # results
    /\ UNCHANGED <<receiver, initiator, bundle, xrng, drvars, svars, pvars, tvars>>

\* bob_receiver.receive(&initiator_identity, &alice_result.ephemeral_public)
Receive(initiator_identity) ==
    /\ results.alice.ok
    /\ results.receives < MaxScalars
    /\ LET r == receive(receiver, verifying_key(initiator_identity),
                        results.alice.ephemeral_public)
       IN /\ receiver' = r.self
          /\ results' = [results EXCEPT !.bob = r.res,
                                        !.receiver_before = receiver,
                                        !.claimed = verifying_key(initiator_identity),
                                        !.receives = @ + 1,
                                        !.consumed =
                                            IF IsSome(receiver.one_time_prekey)
                                            THEN @ \cup {PublicKeyFrom(
                                                     receiver.one_time_prekey[1])}
                                            ELSE @]
    /\ UNCHANGED <<initiator, bundle, xrng, drvars, svars, pvars, tvars>>

NextX3DH ==
    \/ AddOneTimePrekey
    \/ GenerateBundle
    \/ NewInitiator
    \/ Initiate
    \/ \E kind \in BundleFaults : InitiateAltered(kind)
    \/ \E i \in Identities : Receive(i)

\* any two identity keys, also the same one on both sides
InitAgreement ==
    /\ InitSessions /\ InitServer /\ aead = NoAead /\ skip_call = NoSkipCall
    /\ \E a \in Identities, b \in Identities : InitX3DH(a, b)

SpecX3DH == InitAgreement /\ [][NextX3DH]_vars

\* ----------------------------------------------------------- the server
\* a request ends: its response is recorded and its slot is free again
Respond(r, out) ==
    /\ reqs' = [reqs EXCEPT ![r] = Idle]
    /\ responses' = responses (+) SetToBag({[op |-> reqs[r].op,
                                             user_a |-> reqs[r].user_a,
                                             user_b |-> reqs[r].user_b, out |-> out]})

\* the server accepts a request and its handler runs up to its first query
Accept(r, op, user_a, user_b) ==
    /\ reqs[r].op = "idle"
    /\ served < MaxServed
    /\ served' = served + 1
    /\ reqs' = [reqs EXCEPT ![r] = [Idle EXCEPT !.op = op, !.pc = "select",
                                                !.user_a = user_a, !.user_b = user_b]]

\* Uuid::new_v4 for a new row of a table: an id no row of it has
NewId(table) == Cardinality(table) + 1

\* Database::add_one_time_prekey, as register calls it for a new user
Database_add_one_time_prekey(user_id) ==
    /\ Cardinality(one_time_prekeys) < MaxPrekeys
    /\ one_time_prekeys' = one_time_prekeys \cup
           {[id |-> NewId(one_time_prekeys), user_id |-> user_id,
             public_key |-> PublicKeyFrom(NewId(one_time_prekeys)), used |-> FALSE]}
    /\ UNCHANGED <<sessions, reqs, served, responses, drvars, xvars, pvars, tvars>>

\* get_prekey_bundle is called for a user that exists
GetPrekeyBundle(r, user_id) ==
    /\ Accept(r, "get_prekey_bundle", user_id, "")
    /\ UNCHANGED <<one_time_prekeys, sessions, responses, drvars, xvars, pvars, tvars>>

\* consume_one_time_prekey, lines 260-265: SELECT ... WHERE user_id = ? AND
\* used = 0 LIMIT 1; without a row the bundle is returned without a prekey
ConsumeSelect(r) ==
    /\ reqs[r].op = "get_prekey_bundle" /\ reqs[r].pc = "select"
    /\ LET unused == {row \in one_time_prekeys :
                          row.user_id = reqs[r].user_a /\ ~row.used}
       IN IF unused = {}
          THEN Respond(r, None)
          ELSE /\ \E row \in unused :
                     reqs' = [reqs EXCEPT ![r].pc = "update", ![r].row = row]
               /\ UNCHANGED responses
    /\ UNCHANGED <<one_time_prekeys, sessions, served, drvars, xvars, pvars, tvars>>

\* consume_one_time_prekey, lines 267-273: UPDATE ... SET used = 1 WHERE id = ?
\* and the handler returns the bundle with the prekey it read
ConsumeUpdate(r) ==
    /\ reqs[r].op = "get_prekey_bundle" /\ reqs[r].pc = "update"
    /\ one_time_prekeys' = {IF row.id = reqs[r].row.id THEN [row EXCEPT !.used = TRUE]
                                                       ELSE row : row \in one_time_prekeys}
    /\ Respond(r, reqs[r].row.public_key)
    /\ UNCHANGED <<sessions, served, drvars, xvars, pvars, tvars>>

\* get_or_create_session(user_a, user_b) is called
GetOrCreateSession(r, user_a, user_b) ==
    /\ user_a # user_b
    /\ Accept(r, "get_or_create_session", user_a, user_b)
    /\ UNCHANGED <<one_time_prekeys, sessions, responses, drvars, xvars, pvars, tvars>>

\* the rows the SELECT of get_or_create_session matches
Existing(user_a, user_b) ==
    {row \in sessions : \/ row.user_a = user_a /\ row.user_b = user_b
                        \/ row.user_a = user_b /\ row.user_b = user_a}

\* get_or_create_session, lines 286-298: fetch_optional; a row found is returned
SessionSelect(r) ==
    /\ reqs[r].op = "get_or_create_session" /\ reqs[r].pc = "select"
    /\ LET existing == Existing(reqs[r].user_a, reqs[r].user_b)
       IN IF existing = {}
          THEN /\ reqs' = [reqs EXCEPT ![r].pc = "insert"]
               /\ UNCHANGED responses
          ELSE \E row \in existing : Respond(r, <<row.id>>)
    /\ UNCHANGED <<one_time_prekeys, sessions, served, drvars, xvars, pvars, tvars>>

\* get_or_create_session, lines 300-321: INSERT INTO sessions, the new row is
\* returned
SessionInsert(r) ==
    /\ reqs[r].op = "get_or_create_session" /\ reqs[r].pc = "insert"
    /\ sessions' = sessions \cup {[id |-> NewId(sessions), user_a |-> reqs[r].user_a,
                                    user_b |-> reqs[r].user_b]}
    /\ Respond(r, <<NewId(sessions)>>)
    /\ UNCHANGED <<one_time_prekeys, served, drvars, xvars, pvars, tvars>>

NextPrekeys ==
    \/ \E u \in UserIds : Database_add_one_time_prekey(u)
    \/ \E r \in Requests, u \in UserIds : GetPrekeyBundle(r, u)
    \/ \E r \in Requests : ConsumeSelect(r)
    \/ \E r \in Requests : ConsumeUpdate(r)

\* get_prekey_bundle requests handled concurrently, one query at a time
SpecPrekeys == Init /\ [][NextPrekeys]_vars

NextGetSession ==
    \/ \E r \in Requests, a \in UserIds \cup {SenderId}, b \in UserIds :
           GetOrCreateSession(r, a, b)
    \/ \E r \in Requests : SessionSelect(r)
    \/ \E r \in Requests : SessionInsert(r)

\* get_or_create_session calls running concurrently, one query at a time
SpecGetSession == Init /\ [][NextGetSession]_vars

\* ORDER BY created_at on a set of rows
RECURSIVE OrderByCreatedAt(_)
OrderByCreatedAt(rows) ==
    IF rows = {} THEN <<>>
    ELSE LET first == CHOOSE x \in rows : \A y \in rows : x.created_at <= y.created_at
         IN <<first>> \o OrderByCreatedAt(rows \ {first})

\* the query without the condition on delivered
get_undelivered_messages_all(table, user_id) ==
    OrderByCreatedAt({row \in table : row.recipient_id = user_id})

\* Database::get_undelivered_messages: SELECT * FROM messages WHERE
\* recipient_id = ? AND delivered = 0 ORDER BY created_at
get_undelivered_messages(table, user_id) ==
    OrderByCreatedAt({row \in table : row.recipient_id = user_id /\ ~row.delivered})

\* Database::mark_delivered: UPDATE messages SET delivered = 1 WHERE id = ?
mark_delivered(table, message_id) ==
    {IF row.id = message_id THEN [row EXCEPT !.delivered = TRUE] ELSE row : row \in table}

\* store_message is called and builds the Message, lines 334-345: created_at
\* is Utc::now(), read before the INSERT is sent; before is the set of rows
\* that were in the table when the call began
StoreMessage(r, recipient_id) ==
    /\ reqs[r].op = "idle"
    /\ served < MaxServed
    /\ Cardinality(messages) + Cardinality({q \in Requests : reqs[q].op = "store_message"})
           < MaxMessages
    /\ served' = served + 1
    /\ reqs' = [reqs EXCEPT ![r] = [Idle EXCEPT !.op = "store_message", !.pc = "insert",
                                                !.user_a = SenderId,
                                                !.user_b = recipient_id,
                                                !.created_at = clock,
                                                !.before = {row.id : row \in messages}]]
    /\ clock' = clock + 1
    /\ UNCHANGED <<one_time_prekeys, sessions, responses, messages, users, drvars, xvars,
                   pvars>>

\* store_message, lines 347-370: INSERT INTO messages, then the UPDATE of
\* sessions.last_message_at (a column the sessions of the model do not carry),
\* and the Message is returned
StoreInsert(r) ==
    /\ reqs[r].op = "store_message" /\ reqs[r].pc = "insert"
    /\ messages' = messages \cup {[id |-> NewId(messages),
                                    recipient_id |-> reqs[r].user_b,
                                    delivered |-> FALSE,
                                    created_at |-> reqs[r].created_at,
                                    before |-> reqs[r].before]}
    /\ Respond(r, <<NewId(messages)>>)
    /\ UNCHANGED <<one_time_prekeys, sessions, served, users, clock, drvars, xvars, pvars>>

\* get_messages is called for a user id
GetMessages(r, user_id) ==
    /\ Accept(r, "get_messages", user_id, "")
    /\ UNCHANGED <<one_time_prekeys, sessions, responses, tvars, drvars, xvars, pvars>>

\* get_messages, lines 274-277: the rows get_undelivered_messages returns
MessagesSelect(r) ==
    /\ reqs[r].op = "get_messages" /\ reqs[r].pc = "select"
    /\ reqs' = [reqs EXCEPT ![r].pc = "mark", ![r].next = 1,
                            ![r].rows = get_undelivered_messages(messages,
                                                                 reqs[r].user_a)]
    /\ UNCHANGED <<one_time_prekeys, sessions, served, responses, tvars, drvars, xvars,
                   pvars>>

\* get_messages, lines 279-284: mark_delivered for the next row fetched; after
\* the last one the rows are returned as they were fetched
MarkDelivered(r) ==
    /\ reqs[r].op = "get_messages" /\ reqs[r].pc = "mark"
    /\ IF reqs[r].next <= Len(reqs[r].rows)
       THEN /\ messages' = mark_delivered(messages, reqs[r].rows[reqs[r].next].id)
            /\ reqs' = [reqs EXCEPT ![r].next = @ + 1]
            /\ UNCHANGED responses
       ELSE /\ Respond(r, [i \in 1..Len(reqs[r].rows) |-> reqs[r].rows[i].id])
            /\ UNCHANGED messages
    /\ UNCHANGED <<one_time_prekeys, sessions, served, users, clock, drvars, xvars, pvars>>

NextMessages ==
    \/ \E r \in Requests, u \in UserIds : StoreMessage(r, u)
    \/ \E r \in Requests : StoreInsert(r)
    \/ \E r \in Requests, u \in UserIds : GetMessages(r, u)
    \/ \E r \in Requests : MessagesSelect(r)
    \/ \E r \in Requests : MarkDelivered(r)

\* store_message calls and get_messages requests handled concurrently, one
\* query at a time
SpecMessages == Init /\ [][NextMessages]_vars

\* the rows SELECT * FROM users WHERE username = ? matches
get_user_by_username(username) == {row \in users : row.username = username}

\* register is called with a valid username; user_b notes whether the
\* username had a row when the request came in
Register(r, username) ==
    /\ Accept(r, "register", username,
              IF get_user_by_username(username) = {} THEN "free" ELSE "taken")
    /\ UNCHANGED <<one_time_prekeys, sessions, responses, tvars, drvars, xvars, pvars>>

\* register, lines 79-87: get_user_by_username; a row found gives CONFLICT
RegisterSelect(r) ==
    /\ reqs[r].op = "register" /\ reqs[r].pc = "select"
    /\ IF get_user_by_username(reqs[r].user_a) # {}
       THEN Respond(r, "CONFLICT")
       ELSE /\ reqs' = [reqs EXCEPT ![r].pc = "create_user"]
            /\ UNCHANGED responses
    /\ UNCHANGED <<one_time_prekeys, sessions, served, tvars, drvars, xvars, pvars>>

\* register, lines 89-112, and create_user: the keys are made and the row is
\* inserted; users.username is UNIQUE, so with a row of that username in the
\* table the INSERT fails and the handler maps the error to
\* INTERNAL_SERVER_ERROR
RegisterCreateUser(r) ==
    /\ reqs[r].op = "register" /\ reqs[r].pc = "create_user"
    /\ IF get_user_by_username(reqs[r].user_a) # {}
       THEN /\ Respond(r, "INTERNAL_SERVER_ERROR")
            /\ UNCHANGED users
       ELSE /\ users' = users \cup {[id |-> NewId(users), username |-> reqs[r].user_a]}
            /\ reqs' = [reqs EXCEPT ![r].pc = "add_one_time_prekey",
                                    ![r].row = [NoRow EXCEPT !.id = NewId(users)]]
            /\ UNCHANGED responses
    /\ UNCHANGED <<one_time_prekeys, sessions, served, messages, clock, drvars, xvars,
                   pvars>>

\* register, lines 114-134: add_one_time_prekey for the new user, the audit
\* log entry (a table the model does not carry) and the response
RegisterPrekey(r) ==
    /\ reqs[r].op = "register" /\ reqs[r].pc = "add_one_time_prekey"
    /\ one_time_prekeys' = one_time_prekeys \cup
           {[id |-> NewId(one_time_prekeys), user_id |-> reqs[r].row.id,
             public_key |-> PublicKeyFrom(NewId(one_time_prekeys)), used |-> FALSE]}
    /\ Respond(r, "CREATED")
    /\ UNCHANGED <<sessions, served, tvars, drvars, xvars, pvars>>

NextRegister ==
    \/ \E r \in Requests, u \in Usernames : Register(r, u)
    \/ \E r \in Requests : RegisterSelect(r)
    \/ \E r \in Requests : RegisterCreateUser(r)
    \/ \E r \in Requests : RegisterPrekey(r)

\* register requests handled concurrently, one query at a time
SpecRegister == Init /\ [][NextRegister]_vars

\* ------------------------------------------------------- the primitives
\* encrypt(&key, &nonce, plaintext, aad)
AeadEncrypt ==
    /\ ~aead.sealed
    /\ aead' = [aead EXCEPT !.ciphertext = encrypt(aead.key, aead.nonce, aead.plaintext,
                                                    aead.associated_data),
                            !.sealed = TRUE]
    /\ UNCHANGED <<skip_call, drvars, xvars, svars, tvars>>

\* decrypt(&key, &nonce, &ciphertext, aad) on the ciphertext encrypt returned
\* or on a copy of it with a bit changed
AeadDecrypt(key, nonce, modified, associated_data) ==
    /\ aead.sealed
    /\ aead' = [aead EXCEPT
                   !.open_key = key, !.open_nonce = nonce,
                   !.open_aad = associated_data, !.modified = modified,
                   !.out = decrypt(key, nonce,
                                   IF modified THEN [aead.ciphertext EXCEPT !.flip = 1]
                                   ELSE aead.ciphertext,
                                   associated_data)]
    /\ aead' # aead
    /\ UNCHANGED <<skip_call, drvars, xvars, svars, tvars>>

NextAead ==
    \/ AeadEncrypt
    \/ \E k \in Bytes, n \in Bytes, m \in BOOLEAN, ad \in Bytes : AeadDecrypt(k, n, m, ad)

InitAead ==
    /\ InitSessions /\ InitX3DH(IdentityOf(Alice), IdentityOf(Bob)) /\ InitServer
    /\ aead \in AeadInputs /\ skip_call = NoSkipCall

\* encrypt and decrypt applied to every combination of arguments
SpecAead == InitAead /\ [][NextAead]_vars

\* line 155 of skip_message_keys, 'self.recv_counter + MAX_SKIP as u32 < until',
\* in u32 arithmetic: a sum past the largest value panics when the build
\* checks overflow and wraps around when it does not
TooManySkipped(recv_counter, until, build) ==
    LET sum == recv_counter + MAX_SKIP
    IN IF sum >= 2^CounterBits /\ build = "dev" THEN "panic"
       ELSE IF sum % 2^CounterBits < until THEN "DecryptionFailed"
       ELSE "Ok"

\* skip_message_keys(until) reaches its first line
SkipCheck(build) ==
    /\ skip_call.out = "none"
    /\ skip_call' = [skip_call EXCEPT
                        !.out = TooManySkipped(skip_call.recv_counter, skip_call.until,
                                               build)]
    /\ UNCHANGED <<aead, drvars, xvars, svars, tvars>>

NextSkip == \E build \in Builds : SkipCheck(build)

InitSkip ==
    /\ InitSessions /\ InitX3DH(IdentityOf(Alice), IdentityOf(Bob)) /\ InitServer
    /\ aead = NoAead /\ skip_call \in SkipInputs

\* the check of skip_message_keys for every recv_counter and until
SpecSkip == InitSkip /\ [][NextSkip]_vars

\* ------------------------------------------------------------------ claims
IsDecrypt == last.op = "decrypt"
Returned == last.ok /\ last.val = last.pt

\* C2: when every message of either direction is delivered once and in send
\* order, each decrypt returns the plaintext given to the matching encrypt.
C2_InOrderRoundTrip ==
    (IsDecrypt /\ fifo[Alice] /\ fifo[Bob]) => Returned

\* Alice and Bob have taken two turns each and Alice reads Bob's second reply
C2_Witness ==
    /\ IsDecrypt /\ fifo[Alice] /\ fifo[Bob] /\ Returned
    /\ last.who = Alice /\ last.idx = 2
    /\ Cardinality(delivered[Bob]) >= 2
    /\ Cardinality(old_remotes[Alice]) >= 2

\* C3: while Alice has received nothing, Bob decrypts her messages in any
\* order, each to its plaintext, when no call skips more than MAX_SKIP.
C3_OutOfOrder ==
    (/\ IsDecrypt /\ last.who = Bob /\ delivered[Alice] = {}
     /\ last.msg.header.message_number <= last.pre.recv_counter + MAX_SKIP)
        => Returned

\* a message arrives after MAX_SKIP later ones and its key comes from the store
C3_Witness ==
    /\ IsDecrypt /\ last.who = Bob /\ delivered[Alice] = {} /\ Returned
    /\ last.msg.header.message_number = 0
    /\ Cardinality(last.pre.skipped_keys) = MAX_SKIP
    /\ Cardinality(last.post.skipped_keys) = MAX_SKIP - 1

\* C4: a message of a receiving chain the receiver has ratcheted away from
\* still decrypts to its plaintext when it arrives.
C4_Straggler ==
    (IsDecrypt /\ last.msg.header.dh_public \in old_remotes[last.who]) => Returned

C4_Witness ==
    /\ IsDecrypt /\ last.msg.header.dh_public \in old_remotes[last.who] /\ Returned
    /\ last.msg.header.dh_public # last.pre.dh_remote

\* C5: with the peer identity set, a message whose signature does not verify
\* over header and ciphertext is refused with InvalidSignature and the state
\* keeps every field.
C5_BadSignatureRefused ==
    (/\ IsDecrypt /\ IsSome(last.pre.remote_identity)
     /\ (~last.sigok \/ last.kind \in TamperKinds))
        => (~last.ok /\ last.err = "InvalidSignature" /\ last.post = last.pre)

\* an altered ciphertext reaches a receiver that holds keys and a peer identity
C5_Witness ==
    /\ IsDecrypt /\ IsSome(last.pre.remote_identity) /\ last.kind = "ciphertext"
    /\ ~last.sigok /\ last.err = "InvalidSignature" /\ last.post = last.pre
    /\ IsSome(last.pre.chain_key_recv)

\* C6: decrypt returns no plaintext and changes no field of the state for a
\* message whose signature does not verify under the peer's identity key,
\* also on a state from init_bob without set_remote_identity.
C6_UnverifiedNotProcessed ==
    (IsDecrypt /\ ~last.sigok) => (~last.ok /\ last.post = last.pre)

\* C7: when the AEAD open on the receiving-chain path fails, the state is the
\* one before the call.
C7_OpenFailureRolledBack ==
    (IsDecrypt /\ last.at = "open_chain" /\ ~last.ok) => last.post = last.pre

\* the receive counter a message number is measured from
SkipBase == IF last.msg.header.dh_public = last.pre.dh_remote
            THEN last.pre.recv_counter
            ELSE 0
WithinSkip ==
    /\ last.msg.header.message_number <= SkipBase + MAX_SKIP
    /\ last.msg.header.dh_public # last.pre.dh_remote
           => last.msg.header.prev_chain_length <= last.pre.recv_counter + MAX_SKIP

\* C8: after a decrypt call returned an error, a genuine message that was
\* not delivered before and lies within MAX_SKIP still decrypts.
C8_UsableAfterError ==
    (IsDecrypt /\ last.failed_before /\ last.kind = "genuine" /\ WithinSkip) => Returned

\* C9: skipped_keys never holds more than MAX_SKIP entries.
C9_SkippedBounded ==
    \A p \in Party : Cardinality(st[p].skipped_keys) <= MAX_SKIP

\* C10: a message MAX_SKIP ahead is decrypted with MAX_SKIP keys stored; a
\* message MAX_SKIP + 1 ahead fails and leaves the state as it was, also
\* when it carries a new dh_public.
C10_ExactlyMaxSkip ==
    (IsDecrypt /\ WithinSkip /\ last.msg.header.message_number = SkipBase + MAX_SKIP)
        => Returned
C10_OneTooMany ==
    (IsDecrypt /\ last.msg.header.message_number = SkipBase + MAX_SKIP + 1)
        => (~last.ok /\ last.post = last.pre)
C10_SkipBoundary == C10_ExactlyMaxSkip /\ C10_OneTooMany

\* C1: initiate on a bundle of the receiver and receive with the initiator's
\* identity key and ephemeral key give the same shared secret and the same
\* associated data.
Matched ==
    /\ results.alice.ok /\ results.bob.ok
    /\ results.claimed = verifying_key(initiator.identity_key)
    /\ results.used = generate_bundle(results.receiver_before)
C1_SameSecret == Matched => results.alice.shared_secret = results.bob.shared_secret
C1_SameAD == Matched => results.alice.associated_data = results.bob.associated_data
C1_X3DHAgreement == C1_SameSecret /\ C1_SameAD

\* a receive has returned for an initiation whose one-time prekey an earlier
\* receive consumed
SecondReceive ==
    /\ results.bob.err # "none"
    /\ IsSome(results.used.one_time_prekey)
    /\ results.used.one_time_prekey \in results.consumed
    /\ results.used.one_time_prekey
           # generate_bundle(results.receiver_before).one_time_prekey

\* C11: once receive has consumed the one-time prekey, a second receive for
\* an initiation that used that prekey fails and returns no shared secret.
C11_SecondReceiveRefused ==
    SecondReceive => (~results.bob.ok /\ results.bob.shared_secret = <<>>)

\* C12: a message a decrypt call has returned Ok for is refused, with an error
\* and no plaintext, at every later delivery, whether its key came from the
\* receiving chain or from skipped_keys.
C12_NoSecondDecrypt ==
    (IsDecrypt /\ last.seen) => (~last.ok /\ last.val = <<>>)

\* Bob opened the second message first and the first one with the key he had
\* stored for it; the first one is delivered again and refused
C12_Witness ==
    /\ IsDecrypt /\ last.seen /\ last.kind = "replay" /\ ~last.ok /\ last.val = <<>>
    /\ last.who = Bob /\ ~last.failed_before /\ ~fifo[Bob]
    /\ delivered[Bob] = {1, 2} /\ last.idx = 1
    /\ last.msg.header.message_number = 0

\* a message opened on the receiving chain is delivered again and refused
C12_WitnessChain ==
    /\ IsDecrypt /\ last.seen /\ last.kind = "replay" /\ ~last.ok
    /\ fifo[last.who] /\ ~last.failed_before

\* the message keys and the chain key n steps down a chain
RECURSIVE ChainStep(_, _)
ChainStep(chain_key, n) ==
    IF n = 0
    THEN kdf_message_keys(chain_key)
    ELSE ChainStep(kdf_message_keys(chain_key).chain, n - 1)

HeaderId(m) == <<m.header.dh_public, m.header.message_number>>
SealedWith(m) == <<m.ciphertext.key, m.ciphertext.iv>>

\* C13: a message returned by encrypt carries a (dh_public, message_number)
\* and is sealed with a key and iv that no message the same state returned
\* before has, and the message keys of successive steps of a chain are
\* pairwise different.
IsEncrypt == last.op = "encrypt" /\ last.ok
C13_DistinctMessages ==
    IsEncrypt => \A i \in 1..(last.idx - 1) :
        /\ HeaderId(sent[last.who][i].msg) # HeaderId(last.msg)
        /\ SealedWith(sent[last.who][i].msg) # SealedWith(last.msg)
C13_DistinctChainKeys ==
    IsEncrypt => \A i \in 0..MAX_SKIP, j \in 0..MAX_SKIP :
        i # j => /\ ChainStep(last.pre.chain_key_send, i).keys
                        # ChainStep(last.pre.chain_key_send, j).keys
                 /\ ChainStep(last.pre.chain_key_send, i).chain
                        # ChainStep(last.pre.chain_key_send, j).chain
C13_UniqueKeys == C13_DistinctMessages /\ C13_DistinctChainKeys

\* Alice has sent on two sending chains, twice on one of them
C13_Witness ==
    /\ IsEncrypt /\ last.who = Alice /\ last.idx = Len(sent[Alice])
    /\ \E i \in 1..Len(sent[Alice]), j \in 1..Len(sent[Alice]), k \in 1..Len(sent[Alice]) :
           /\ i < j /\ j < k
           /\ sent[Alice][i].msg.header.dh_public = sent[Alice][j].msg.header.dh_public
           /\ sent[Alice][j].msg.header.dh_public # sent[Alice][k].msg.header.dh_public
           /\ sent[Alice][k].msg.header.message_number = 0

\* the state dh_ratchet is called on in the last decrypt and the state it gives
RatchetStepPre == skip_message_keys(last.pre, last.msg.header.prev_chain_length).st
RatchetStepPost == dh_ratchet(RatchetStepPre, last.msg.header.dh_public, last.post.dh_self)
LastRatchets == IsDecrypt /\ Ratchets(last.pre, last.msg)

\* C14: a DH ratchet step sets prev_chain_length to the send_counter it found
\* and both counters to 0 (the rest of the decrypt call then counts
\* recv_counter up from 0); a call without a ratchet step lowers neither counter.
C14_RatchetStep ==
    LastRatchets =>
        /\ RatchetStepPost.prev_chain_length = RatchetStepPre.send_counter
        /\ RatchetStepPost.send_counter = 0
        /\ RatchetStepPost.recv_counter = 0
        /\ RatchetStepPre.send_counter = last.pre.send_counter
        /\ last.post.prev_chain_length = last.pre.send_counter
        /\ last.post.send_counter = 0
        /\ last.post.recv_counter <= last.msg.header.message_number + 1
C14_NothingElseLowers ==
    ~LastRatchets =>
        /\ last.post.send_counter >= last.pre.send_counter
        /\ last.post.recv_counter >= last.pre.recv_counter
C14_Counters == C14_RatchetStep /\ C14_NothingElseLowers

\* a state that has sent and received ratchets on the first message of the
\* peer's next chain
C14_Witness ==
    /\ LastRatchets /\ last.ok
    /\ last.pre.send_counter >= 1 /\ last.pre.recv_counter >= 1
    /\ last.post.prev_chain_length = last.pre.send_counter
    /\ last.post.send_counter = 0 /\ last.post.recv_counter = 1

\* encrypt was called on a state without a sending chain
NoSendingChain == last.op = "encrypt" /\ ~IsSome(last.pre.chain_key_send)
C15_Refused == NoSendingChain => (~last.ok /\ last.msg = NoMessage /\ last.post = last.pre)
C15_ErrorCode == NoSendingChain => last.err = "NotInitialised"
C15_BeforeFirstDecrypt ==
    (last.op = "encrypt" /\ last.who = Bob /\ opened[Bob] = {}) => NoSendingChain

\* C15: encrypt on a state without a sending chain, which a state from
\* init_bob is until it has decrypted a message, fails with NOT_INITIALISED,
\* returns no message and leaves the state unchanged.
C15_EncryptNotInitialised == C15_Refused /\ C15_ErrorCode /\ C15_BeforeFirstDecrypt

\* the three session states: which chains a RatchetState holds
Fresh(s) == ~IsSome(s.chain_key_send) /\ ~IsSome(s.chain_key_recv)
SendingOnly(s) == IsSome(s.chain_key_send) /\ ~IsSome(s.chain_key_recv)
Bidirectional(s) == IsSome(s.chain_key_send) /\ IsSome(s.chain_key_recv)

C16_InitStates ==
    /\ Fresh(init_bob(SharedSecret, BobDH, IdentityOf(Bob)))
    /\ SendingOnly(init_alice(SharedSecret, PublicKeyFrom(BobDH), IdentityOf(Alice),
                              verifying_key(IdentityOf(Bob)), BobDH + 1))
    /\ opened[Bob] = {} /\ ~failed[Bob] => Fresh(st[Bob])
    /\ opened[Alice] = {} /\ ~failed[Alice] => SendingOnly(st[Alice])
C16_NewKeyBidirectional ==
    (IsDecrypt /\ last.ok /\ last.msg.header.dh_public # last.pre.dh_remote)
        => Bidirectional(last.post)
C16_ErrorKeepsState ==
    (IsDecrypt /\ ~last.ok /\ ~Bidirectional(last.pre)) => ~Bidirectional(last.post)

\* C16: init_bob gives FRESH, init_alice gives SENDING_ONLY, a decrypt that
\* succeeds on a message with a new dh_public ends BIDIRECTIONAL, and a
\* decrypt that returns an error never moves the state to BIDIRECTIONAL.
C16_SessionStates == C16_InitStates /\ C16_NewKeyBidirectional /\ C16_ErrorKeepsState

\* initiate has returned for the bundle results.used
Initiated == results.alice.err # "none"
SignatureValid(b) == verify_prekey(b.identity_key, b.signed_prekey, b.prekey_signature)

\* C17: initiate on a bundle whose prekey_signature is not a valid signature
\* of signed_prekey under the bundle's identity_key returns InvalidSignature
\* and no X3DHResult.
C17_BadBundleSignature ==
    (Initiated /\ ~SignatureValid(results.used))
        => /\ ~results.alice.ok /\ results.alice.err = "InvalidSignature"
           /\ results.alice.shared_secret = <<>>

\* the signed prekey was replaced by a well-formed key of another party
C17_Witness ==
    /\ Initiated /\ ~SignatureValid(results.used)
    /\ results.used.signed_prekey = PublicKeyFrom(0)
    /\ KeySizeOk(results.used.identity_key)
    /\ results.alice.err = "InvalidSignature"

\* a key of the bundle has a wrong length
WrongLength(b) ==
    \/ ~KeySizeOk(b.identity_key)
    \/ ~KeySizeOk(b.signed_prekey)
    \/ IsSome(b.one_time_prekey) /\ ~KeySizeOk(b.one_time_prekey)

C18_NoPanic == Initiated => results.alice.err # "panic"
C18_SignedPrekeySize ==
    (Initiated /\ SignatureValid(results.used) /\ KeySizeOk(results.used.identity_key)
     /\ ~KeySizeOk(results.used.signed_prekey))
        => results.alice.err = "InvalidKeySize"

\* C18: initiate on a bundle with an identity_key, signed_prekey or
\* one_time_prekey of a wrong length returns InvalidKeySize; it does not
\* panic and returns no other error for it.
C18_WrongSizeTyped ==
    (Initiated /\ WrongLength(results.used))
        => (~results.alice.ok /\ results.alice.err = "InvalidKeySize")

\* the message numbers Bob has been given, and those below the highest of
\* them that he has not been given
GivenNumbers == {i - 1 : i \in delivered[Bob]}
MissingNumbers ==
    {n \in 0..MaxTotal : n \notin GivenNumbers /\ \E h \in GivenNumbers : n < h}
\* the message numbers skipped_keys holds a key for, per chain
StoredNumbers(p, dh_public) ==
    {e.key[2] : e \in {x \in st[p].skipped_keys : x.key[1] = dh_public}}
\* Alice has received nothing, so all her messages are of one sending chain,
\* and no call of Bob has failed
OneChain == delivered[Alice] = {} /\ ~failed[Bob] /\ delivered[Bob] # {}

\* C19: while Bob is given the messages of one sending chain out of order,
\* skipped_keys holds exactly one entry for each number below the highest
\* given one that he has not been given, and none for the chain once he has
\* been given every message of it.
C19_SkippedExactly ==
    OneChain =>
        /\ StoredNumbers(Bob, st[Bob].dh_remote) = MissingNumbers
        /\ Cardinality(st[Bob].skipped_keys) = Cardinality(MissingNumbers)
        /\ delivered[Bob] = 1..Len(sent[Alice]) => st[Bob].skipped_keys = {}

\* m2 is the first of m0, m1, m2 to arrive: two entries
C19_Witness ==
    /\ OneChain /\ delivered[Bob] = {3} /\ Len(sent[Alice]) = 3
    /\ StoredNumbers(Bob, st[Bob].dh_remote) = {0, 1}
    /\ Cardinality(st[Bob].skipped_keys) = 2

\* and none left when m0 and m1 have arrived after it
C19_WitnessEnd ==
    /\ OneChain /\ delivered[Bob] = {1, 2, 3} /\ Len(sent[Alice]) = 3 /\ ~fifo[Bob]
    /\ st[Bob].skipped_keys = {} /\ last.pre.skipped_keys # {}

\* the public keys a party of the session has held as dh_self before the
\* last call: the two initial ones, those in the headers sent, and the
\* current ones
UsedKeys ==
    {PublicKeyFrom(BobDH), PublicKeyFrom(BobDH + 1), PublicKeyFrom(last.pre.dh_self),
     PublicKeyFrom(st[Peer(last.who)].dh_self)}
        \cup UNION {{sent[p][i].msg.header.dh_public : i \in 1..Len(sent[p])} :
                       p \in Party}
\* Alice has decrypted the first reply of Bob she opened
FirstReply ==
    /\ IsDecrypt /\ last.who = Alice /\ last.ok /\ Cardinality(opened[Alice]) = 1
    /\ ~last.seen

C20_HeaderCarriesSelf ==
    IsEncrypt => last.msg.header.dh_public = PublicKeyFrom(last.pre.dh_self)
C20_AfterFirstReply ==
    FirstReply => \A i \in 1..Len(sent[Alice]) :
        sent[Alice][i].msg.header.dh_public # PublicKeyFrom(last.post.dh_self)
C20_RatchetKeyNew ==
    LastRatchets => PublicKeyFrom(RatchetStepPost.dh_self) \notin UsedKeys

\* C20: after Alice decrypts Bob's first reply her next message carries a
\* dh_public that none of her messages before the reply carried, and every
\* DH ratchet step installs a dh_self not used before in the session.
C20_FreshRatchetKey ==
    C20_HeaderCarriesSelf /\ C20_AfterFirstReply /\ C20_RatchetKeyNew

\* Alice has sent twice when the first reply arrives
C20_Witness ==
    /\ FirstReply /\ LastRatchets /\ Len(sent[Alice]) >= 2
    /\ last.post.dh_self # last.pre.dh_self
    /\ PublicKeyFrom(last.pre.dh_self) = sent[Alice][1].msg.header.dh_public

\* the bundles get_prekey_bundle has returned
Bundles == {x \in BagToSet(responses) : x.op = "get_prekey_bundle"}

C21_AtMostOneBundle ==
    \A x \in Bundles : IsSome(x.out) => CopiesIn(x, responses) = 1
C21_OwnAndMarked ==
    \A x \in Bundles :
        IsSome(x.out) => \E row \in one_time_prekeys :
            row.public_key = x.out /\ row.user_id = x.user_a /\ row.used

\* C21: under any interleaving of get_prekey_bundle requests each stored
\* one-time prekey is returned in at most one bundle, and a bundle carries
\* none only when no unused one remains.
C21_PrekeyOnce == C21_AtMostOneBundle /\ C21_OwnAndMarked

\* the sessions get_or_create_session has returned
Answers == {x \in BagToSet(responses) : x.op = "get_or_create_session"}
UnorderedPair(x) == {x.user_a, x.user_b}

C22_SameSession ==
    \A x \in Answers, y \in Answers :
        UnorderedPair(x) = UnorderedPair(y) => x.out = y.out
C22_OneRowPerPair ==
    \A x \in sessions, y \in sessions :
        UnorderedPair(x) = UnorderedPair(y) => x = y

\* C22: get_or_create_session(a, b) and get_or_create_session(b, a) return
\* the same session, and under any interleaving of calls there is at most one
\* session row for an unordered pair of users.
C22_OneSessionPerPair == C22_SameSession /\ C22_OneRowPerPair

\* C23: when a message matches an entry of skipped_keys and the AEAD open
\* with the entry's key fails, the entry is still in skipped_keys after the
\* call.
C23_EntryKeptOnFailure ==
    (IsDecrypt /\ last.at = "open_skipped" /\ ~last.ok)
        => MapHas(last.post.skipped_keys, HeaderId(last.msg))

\* a message of a receiving chain the receiver has left is delivered again
\* when the key for it is no longer stored
OldChainAgain ==
    /\ IsDecrypt /\ last.kind = "replay"
    /\ last.msg.header.dh_public # last.pre.dh_remote
    /\ last.msg.header.dh_public \in old_remotes[last.who]
    /\ ~MapHas(last.pre.skipped_keys, HeaderId(last.msg))
RatchetFields(s) ==
    <<s.dh_self, s.dh_remote, s.root_key, s.chain_key_send, s.chain_key_recv,
      s.send_counter, s.recv_counter>>

\* C24: a message of an earlier receiving chain that is delivered again
\* causes no DH ratchet step: dh_self, dh_remote, root_key, both chain keys
\* and both counters keep their values.
C24_NoRatchetOnOldKey ==
    OldChainAgain => RatchetFields(last.post) = RatchetFields(last.pre)

\* the last receive put a fourth DH output into the key derivation: its
\* secret is not the one a receiver without a one-time prekey derives
ReceiveWithDH4 ==
    results.bob.shared_secret #
        receive([results.receiver_before EXCEPT !.one_time_prekey = None],
                results.claimed, results.bob.ephemeral_public).res.shared_secret
ReceiveConsumed ==
    IsSome(results.receiver_before.one_time_prekey) /\ ~IsSome(receiver.one_time_prekey)

\* C25: receive includes DH4 exactly when the bundle the initiator used
\* contained a one-time prekey.
C25_DH4IffBundleHadPrekey ==
    results.bob.ok => (ReceiveWithDH4 <=> IsSome(results.used.one_time_prekey))
\* C25: an initiation made from a bundle without a one-time prekey is
\* completed without consuming a prekey.
C25_NoPrekeyNoConsume ==
    (results.bob.ok /\ ~IsSome(results.used.one_time_prekey)) => ~ReceiveConsumed
C25_DH4FollowsBundle == C25_DH4IffBundleHadPrekey /\ C25_NoPrekeyNoConsume

\* C26: an initiate call never returns the ephemeral_public that the initiate
\* call before it returned, also not when the two calls are made on the same
\* X3DHInitiator with different bundles (a step that changes results.used is
\* an initiate call with another bundle).
C26_NewEphemeralPerCall ==
    [][(results.alice.ok /\ results'.alice.ok /\ results'.used # results.used)
           => results'.alice.ephemeral_public # results.alice.ephemeral_public]_vars

\* the one-time prekey a generate_bundle call would return now
BundlePrekey == generate_bundle(receiver).one_time_prekey
IsReceive == results'.receives # results.receives
IsAddOneTimePrekey == xrng' # xrng /\ initiator' = initiator

\* C27: the bundle generate_bundle returns right after a receive call has no
\* one-time prekey.
C27_NoneAfterReceive ==
    [][IsReceive => ~IsSome(generate_bundle(receiver').one_time_prekey)]_vars
\* C27: from a receiver whose bundle has no one-time prekey, only
\* add_one_time_prekey leads to one whose bundle has.
C27_NoneUntilAdd ==
    [][(~IsSome(BundlePrekey) /\ IsSome(generate_bundle(receiver').one_time_prekey))
           => IsAddOneTimePrekey]_vars
\* C27: the public half of a one-time prekey that receive has consumed is
\* not the one-time prekey of any bundle generated afterwards.
C27_ConsumedNeverAgain ==
    IsSome(BundlePrekey) => BundlePrekey \notin results.consumed
C27_ConsumedPrekeyGone ==
    []C27_ConsumedNeverAgain /\ C27_NoneAfterReceive /\ C27_NoneUntilAdd
\* a prekey was consumed, another was added and is in the published bundle
C27_Witness ==
    /\ results.consumed # {} /\ IsSome(bundle) /\ IsSome(bundle.one_time_prekey)
    /\ bundle = generate_bundle(receiver)
\* a prekey was consumed and the bundle published after it has none
C27_WitnessNone ==
    /\ results.consumed # {} /\ IsSome(bundle) /\ ~IsSome(bundle.one_time_prekey)
    /\ bundle = generate_bundle(receiver) /\ results.bob.ok

\* the last decrypt call reached skip_message_keys(prev_chain_length) at
\* line 258, and what that call returned
SkipCalled ==
    /\ IsDecrypt
    /\ SignatureCheckPasses(last.pre, last.msg)
    /\ KeySizeOk(last.msg.header.dh_public)
    /\ ~MapHas(last.pre.skipped_keys, HeaderId(last.msg))
    /\ last.msg.header.dh_public # last.pre.dh_remote
SkipUntil == last.msg.header.prev_chain_length
SkipResult == skip_message_keys(last.pre, SkipUntil)

\* C28: skip_message_keys(until) on a state with no receiving chain, with
\* until greater than recv_counter, fails with NOT_INITIALISED.
C28_NoChainRefused ==
    (SkipCalled /\ ~IsSome(last.pre.chain_key_recv) /\ SkipUntil > last.pre.recv_counter)
        => (~SkipResult.ok /\ SkipResult.err = "NotInitialized")
\* C28: when skip_message_keys(until) returns success with until greater than
\* recv_counter, it has stored a key for every message number from the old
\* recv_counter up to until - 1.
C28_SuccessMeansStored ==
    (SkipCalled /\ SkipUntil > last.pre.recv_counter /\ SkipResult.ok)
        => \A n \in last.pre.recv_counter..(SkipUntil - 1) :
               MapHas(SkipResult.st.skipped_keys, <<last.pre.dh_remote, n>>)
C28_SkipNeedsChain == C28_NoChainRefused /\ C28_SuccessMeansStored

\* the messages the caller of the last encrypt has sent, and among them the
\* ones before the last that carry the ratchet key k; a party that only
\* receives genuine messages gets a new dh_self at each DH ratchet step and
\* sends at least one message between two steps, so the ratchet key in the
\* header tells the sending chains apart
SentBefore(k) ==
    {i \in 1..(last.idx - 1) : sent[last.who][i].msg.header.dh_public = k}
SinceRatchet == Cardinality(SentBefore(last.msg.header.dh_public))
OnPreviousChain ==
    LET first == last.idx - SinceRatchet
    IN IF first = 1 THEN 0
       ELSE Cardinality(SentBefore(sent[last.who][first - 1].msg.header.dh_public))

\* C29: the header of the k-th message encrypted since the last DH ratchet
\* step (or since init_alice) carries message_number k, the public key of the
\* current dh_self and, as prev_chain_length, the number of messages sent on
\* the previous sending chain; a successful encrypt adds 1 to send_counter.
C29_Header ==
    (IsEncrypt /\ last.ok) =>
        /\ last.msg.header.message_number = SinceRatchet
        /\ last.msg.header.dh_public = PublicKeyFrom(last.pre.dh_self)
        /\ last.msg.header.prev_chain_length = OnPreviousChain
        /\ last.post.send_counter = last.pre.send_counter + 1
\* the second message of a sending chain that follows a chain with messages
C29_Witness ==
    /\ IsEncrypt /\ last.ok
    /\ last.msg.header.message_number = 1
    /\ last.msg.header.prev_chain_length >= 1
    /\ SinceRatchet = 1 /\ OnPreviousChain >= 1
\* the third message of the first chain
C29_WitnessFirstChain ==
    /\ IsEncrypt /\ last.ok /\ last.who = Alice
    /\ SinceRatchet = 2 /\ last.idx = 3

\* decrypt has been called; with the arguments of encrypt on the ciphertext
\* as encrypt returned it, or with something changed
Opened == aead.out.err # "none"
SameArguments ==
    /\ aead.open_key = aead.key /\ aead.open_nonce = aead.nonce
    /\ aead.open_aad = aead.associated_data /\ ~aead.modified

\* C30: decrypt(key, nonce, encrypt(key, nonce, plaintext, aad), aad) returns
\* plaintext.
C30_RoundTrip ==
    (Opened /\ SameArguments) => (aead.out.ok /\ aead.out.val = aead.plaintext)
\* C30: decrypt with a different key, nonce or aad, or with a modified
\* ciphertext, fails and returns no plaintext.
C30_Refused ==
    (Opened /\ ~SameArguments) => (~aead.out.ok /\ aead.out.val = <<>>)
\* C30: the error of such a call is AUTH_FAILED (CryptoError::AuthenticationFailed).
C30_ErrorCode ==
    (Opened /\ ~SameArguments) => aead.out.err = "AuthenticationFailed"
C30_AeadContract == C30_RoundTrip /\ C30_Refused /\ C30_ErrorCode

OpenedSkipped == IsDecrypt /\ last.ok /\ last.at = "open_skipped"

\* C31: a decrypt that succeeds with an entry of skipped_keys removes that
\* entry and no other, and every other field of the state keeps its value.
C31_OnlyTheEntryGoes ==
    OpenedSkipped =>
        /\ MapHas(last.pre.skipped_keys, HeaderId(last.msg))
        /\ last.post.skipped_keys
               = {e \in last.pre.skipped_keys : e.key # HeaderId(last.msg)}
        /\ Cardinality(last.post.skipped_keys) = Cardinality(last.pre.skipped_keys) - 1
        /\ [last.post EXCEPT !.skipped_keys = last.pre.skipped_keys] = last.pre
\* a skipped message is decrypted while the key of another one stays stored
C31_Witness ==
    OpenedSkipped /\ last.post.skipped_keys # {} /\ last.val = last.pt

\* the step is the SELECT of request r's get_messages
IsMessagesSelect(r) ==
    reqs[r].op = "get_messages" /\ reqs[r].pc = "select" /\ reqs'[r].pc = "mark"
Fetched(r) == {reqs'[r].rows[i] : i \in 1..Len(reqs'[r].rows)}

\* C32: get_undelivered_messages returns rows of the table that are addressed
\* to the given recipient and not marked delivered.
C32_OwnAndUndelivered ==
    [][\A r \in Requests : IsMessagesSelect(r) =>
          \A row \in Fetched(r) :
              row \in messages /\ row.recipient_id = reqs[r].user_a /\ ~row.delivered]_vars
\* C32: it returns them in ascending created_at, which is the order in which
\* they were stored: a message stored before the store_message call of
\* another one began comes before it.
C32_InStoredOrder ==
    [][\A r \in Requests : IsMessagesSelect(r) =>
          \A i \in 1..Len(reqs'[r].rows), j \in 1..Len(reqs'[r].rows) :
              /\ i < j => reqs'[r].rows[i].created_at < reqs'[r].rows[j].created_at
              /\ reqs'[r].rows[i].id \in reqs'[r].rows[j].before => i < j]_vars
\* C32: a message marked delivered stays marked, so no later call returns it.
C32_DeliveredStays ==
    [][\A row \in messages : row.delivered => row \in messages']_vars
C32_Undelivered == C32_OwnAndUndelivered /\ C32_InStoredOrder /\ C32_DeliveredStays
\* a call has fetched two messages of a user, stored one after the other
C32_Witness ==
    \E r \in Requests :
        /\ reqs[r].op = "get_messages" /\ reqs[r].pc = "mark" /\ reqs[r].next = 1
        /\ Len(reqs[r].rows) = 2
        /\ reqs[r].rows[1].id \in reqs[r].rows[2].before
\* a call made after a message was marked delivered returns nothing
C32_WitnessNotAgain ==
    \E r \in Requests :
        /\ reqs[r].op = "get_messages" /\ reqs[r].pc = "mark" /\ reqs[r].rows = <<>>
        /\ \E row \in messages : row.recipient_id = reqs[r].user_a /\ row.delivered

\* the state s holds the message key that sealed m, or a chain key from which
\* kdf_message_keys leads to it (a chain key of m's chain at m's position or
\* an earlier one)
LeadsTo(chain_key, m) ==
    /\ IsSome(chain_key)
    /\ \E n \in 0..(MaxTotal - 1) :
           ChainStep(chain_key, n).keys.encryption_key = m.ciphertext.key
HoldsKeyOf(s, m) ==
    \/ \E e \in s.skipped_keys : e.val.encryption_key = m.ciphertext.key
    \/ LeadsTo(s.chain_key_send, m)
    \/ LeadsTo(s.chain_key_recv, m)

\* C33: the state of a party holds neither the message key nor an earlier
\* chain key for any message it has encrypted.
C33_SenderForgets ==
    \A p \in Party : \A i \in 1..Len(sent[p]) : ~HoldsKeyOf(st[p], sent[p][i].msg)
\* C33: nor for any message it has decrypted.
C33_ReceiverForgets ==
    \A p \in Party : \A id \in opened[p] :
        ~HoldsKeyOf(st[p], sent[Peer(p)][id[1]].msg)
C33_UsedKeysGone == C33_SenderForgets /\ C33_ReceiverForgets
\* Bob has decrypted a message on the chain and one with a stored key, Alice
\* has sent a third; the key of the message not yet delivered is still held
C33_Witness ==
    /\ Cardinality(opened[Bob]) >= 2 /\ Len(sent[Alice]) >= 3
    /\ IsDecrypt /\ last.ok /\ last.at = "open_skipped"
    /\ \E i \in 1..Len(sent[Alice]) : HoldsKeyOf(st[Bob], sent[Alice][i].msg)

\* C34: for all values of recv_counter and until, skip_message_keys rejects
\* the request exactly when until - recv_counter > MAX_SKIP, and the
\* comparison neither wraps around nor panics.
C34_RejectsExactly ==
    skip_call.out # "none" =>
        /\ skip_call.out # "panic"
        /\ skip_call.out = "DecryptionFailed"
               <=> skip_call.until - skip_call.recv_counter > MAX_SKIP

\* the chain key n chain steps after chain_key
RECURSIVE ChainKeyAt(_, _)
ChainKeyAt(chain_key, n) ==
    IF n = 0 THEN chain_key ELSE ChainKeyAt(kdf_message_keys(chain_key).chain, n - 1)
IsCall == last.op \in {"encrypt", "decrypt"}
\* the chains the last call started from and the counters they stood at: the
\* ones the DH ratchet step made, at 0, if the call made a step, and the ones
\* of the state before the call if not
RecvBase == IF LastRatchets THEN RatchetStepPost.chain_key_recv ELSE last.pre.chain_key_recv
RecvBaseCounter == IF LastRatchets THEN 0 ELSE last.pre.recv_counter
SendBase == IF LastRatchets THEN RatchetStepPost.chain_key_send ELSE last.pre.chain_key_send
SendBaseCounter == IF LastRatchets THEN 0 ELSE last.pre.send_counter

\* C35: every call, also one that returns an error, advances chain_key_recv
\* by as many chain steps as it adds to recv_counter, so that chain_key_recv
\* is the first key of the receiving chain advanced by recv_counter steps.
C35_RecvInStep ==
    (IsCall /\ IsSome(RecvBase)) =>
        /\ last.post.recv_counter >= RecvBaseCounter
        /\ last.post.chain_key_recv
               = ChainKeyAt(RecvBase, last.post.recv_counter - RecvBaseCounter)
\* C35: the same for chain_key_send and send_counter.
C35_SendInStep ==
    (IsCall /\ IsSome(SendBase)) =>
        /\ last.post.send_counter >= SendBaseCounter
        /\ last.post.chain_key_send
               = ChainKeyAt(SendBase, last.post.send_counter - SendBaseCounter)
C35_ChainsInStep == C35_RecvInStep /\ C35_SendInStep

\* C36: a chain key that is present is present after every step.
C36_ChainsStay ==
    [][\A p \in Party :
          /\ IsSome(st[p].chain_key_send) => IsSome(st'[p].chain_key_send)
          /\ IsSome(st[p].chain_key_recv) => IsSome(st'[p].chain_key_recv)]_vars
\* C36: a state with a receiving chain has a peer key and a sending chain.
C36_RecvNeedsRest ==
    \A p \in Party :
        IsSome(st[p].chain_key_recv)
            => (IsSome(st[p].dh_remote) /\ IsSome(st[p].chain_key_send))
C36_ChainsPresent == C36_ChainsStay /\ []C36_RecvNeedsRest
\* both parties have a receiving chain, Bob after a call of his that failed
C36_Witness ==
    /\ IsSome(st[Alice].chain_key_recv) /\ IsSome(st[Bob].chain_key_recv)
    /\ failed[Bob]

\* C37: a successful encrypt changes chain_key_send and send_counter and no
\* other field of the state.
C37_EncryptFrame ==
    IsEncrypt =>
        /\ [last.post EXCEPT !.chain_key_send = last.pre.chain_key_send,
                             !.send_counter = last.pre.send_counter] = last.pre
        /\ last.post.chain_key_send # last.pre.chain_key_send
        /\ last.post.send_counter # last.pre.send_counter
\* an encrypt by a party that holds skipped keys and has received messages
C37_Witness ==
    /\ IsEncrypt /\ last.pre.skipped_keys # {} /\ last.pre.recv_counter > 0
    /\ last.pre.prev_chain_length = 0 /\ last.pre.send_counter > 0

\* the responses of get_messages that include the message with this id
Deliveries == {x \in BagToSet(responses) : x.op = "get_messages"}
Including(message_id) ==
    {x \in Deliveries : \E i \in 1..Len(x.out) : x.out[i] = message_id}

\* C38: under any interleaving of get_messages requests, each stored message
\* is included in at most one response.
C38_AtMostOneResponse ==
    \A row \in messages :
        /\ Cardinality(Including(row.id)) <= 1
        /\ \A x \in Including(row.id) : CopiesIn(x, responses) = 1

Registrations == {x \in BagToSet(responses) : x.op = "register"}

\* C39: under any interleaving of register requests no two user rows share a
\* username.
C39_UniqueUsernames ==
    \A x \in users, y \in users : x.username = y.username => x = y
\* C39: a register request that did not create the user, because the
\* username has a row, is answered with CONFLICT.
C39_Conflict ==
    \A x \in Registrations :
        (x.out # "CREATED" /\ get_user_by_username(x.user_a) # {}) => x.out = "CONFLICT"
\* C39: such a request creates no one-time prekey: every one-time prekey
\* belongs to a user and no user has more than one.
C39_NoStrayPrekey ==
    /\ \A k \in one_time_prekeys : \E u \in users : u.id = k.user_id
    /\ \A k \in one_time_prekeys, l \in one_time_prekeys : k.user_id = l.user_id => k = l
C39_RegisterOnce == C39_UniqueUsernames /\ C39_Conflict /\ C39_NoStrayPrekey

====
